---- MODULE Spec2Model ----
(***************************************************************************)
(* Marker / guide list of the timeline (MarkerListModel), its undo         *)
(* closures, the snap consumers it notifies, the command stack the         *)
(* closures are pushed on, and the process-wide id counter shared with     *)
(* MoveableItem.                                                           *)
(***************************************************************************)
EXTENDS Integers, Sequences, FiniteSets, TLC

\* ---------------------------------------------------------------- bounds
\* frames 0..MaxFrame are used as marker positions
MaxFrame == 2
\* ids minted by the process-wide counter stay <= MaxId
MaxId == 4
\* commands kept on the undo stack
MaxStack == 2
\* length of the list of registered snap consumers
MaxReg == 2
\* moveable items alive at the same time
MaxItems == 2
\* calls made to the marker list (undo and redo are not counted)
MaxCalls == 2
\* calls entered by the threads that share the lock of the list
MaxLockCalls == 3
\* commands pushed on the stack shared by the timelines of a document
MaxDocPushes == 3
\* items, positions and durations on a track
MaxTrackItems == 3
MaxPos == 4
MaxDur == 2
\* positions of the items of a timeline with two tracks
MaxTlPos == 2
\* autosave recoveries started inside one call of the project manager
MaxRecover == 1
\* load tasks handed to the task manager, and the clips they are started for
MaxTasks == 3
MaxOwners == 2

\* ------------------------------------------------------ program constants
\* std::array<QColor, 9> markerTypes
MarkerTypesSize == 9
\* pCore->getCurrentFps(), the project frame rate
Fps == 25
\* KdenliveSettings::default_marker_type()
DefaultMarkerType == 0
\* first value handed out by TimelineModel::getNextId()
FirstId == 1

Frames == 0 .. MaxFrame
Comments == {"a", "b"}
Types == {0, 1}
Consumers == {1, 2}
NoFun == << >>
\* the threads that call into the list
Threads == {1, 2}
\* a thread that is not inside a call
Idle == [at |-> "idle"]
\* what loading the resource of a clip gives: no valid producer; a producer of
\* unknown length (live source); one that is not seekable; one with a variable
\* frame rate; one without video; a usable one
Outcomes == {"null", "live", "unseekable", "vfr", "audio", "ok"}
\* before ClipLoadTask::start
NoTask == [thumbOnly |-> FALSE, outcome |-> "ok", cached |-> FALSE, checkProfile |-> FALSE,
           failed |-> FALSE]
NoClip == [inBin |-> FALSE, isReloading |-> FALSE, statusReady |-> FALSE,
           status |-> "waiting", valid |-> TRUE, producer |-> FALSE, thumbnail |-> FALSE]

VARIABLES
    markerList,       \* m_markerList: std::map<int, CommentedTime>, id -> marker
    markerPositions,  \* m_markerPositions: QMap<int, int>, frame -> id
    next_id,          \* TimelineModel::next_id
    registeredSnaps,  \* m_registeredSnaps: vector of weak_ptr<SnapInterface>
    alive,            \* the snap consumers whose weak_ptr still locks
    snapPoints,       \* per consumer: frame -> number of contributions
    undoStack,        \* DocUndoStack: the pushed FunctionalUndoCommands
    undoIndex,        \* QUndoStack::index(): commands currently applied
    items,            \* MoveableItem objects alive, each [id, position, track]
    lastCall,         \* the last call made: its name, return value and case
    tainted,          \* some change of the list bypassed the undo stack
    calls,            \* number of calls made to the list so far
    crashed,          \* a failed Q_ASSERT aborted the process (debug build)
    lockWriter,       \* m_lock: the thread that holds it for writing, 0 if none
    lockDepth,        \* m_lock: how often the writer took it (Recursive)
    lockReaders,      \* m_lock: the threads that hold it for reading
    pc,               \* per thread: where it is inside a call on the list
    taskPc,           \* ClipLoadTask: where the task's thread is in run() / abort()
    task,             \* ClipLoadTask: m_thumbOnly and what loading the resource gives
    m_isCanceled,     \* AbstractTask::m_isCanceled
    m_softDelete,     \* AbstractTask::m_softDelete
    isBlocked,        \* pCore->taskManager.isBlocked()
    clip,             \* the bin clip of the task's owner id
    shouldCheckProfile, \* pCore->bin()->shouldCheckProfile
    eventQueue,       \* calls queued for the main thread (Qt::QueuedConnection)
    taskLog,          \* what the task's thread did to the model: call, queued or not
    guides,           \* KdenliveDoc: the guide list (storage, index) of each timeline uuid
    docStack,         \* KdenliveDoc::commandStack(): the commands of all its timelines
    docIndex,         \* QUndoStack::index() of the document's stack
    cleanIndex,       \* QUndoStack::cleanIndex() of the document's stack
    docUrl,           \* KdenliveDoc::url(), "" when empty
    docModified,      \* KdenliveDoc::isModified()
    projectPath,      \* the project path shown by the main window
    docNextId,        \* TimelineModel::getNextId() counter of the document's process
    docPushes,        \* number of commands pushed on the document's stack so far
    docCall,          \* the last call made on the document: name, return value, case
    trackItems,       \* Track: the items of one track, in position order
    trackCall,        \* the last request made to the track
    tlTracks,         \* TimelineModel: the items of each of its tracks, in position order
    tlGroups,         \* TimelineModel: the groups, each the set of its member ids
    tlCall,           \* the last request made to the timeline
    m_project,        \* ProjectManager::m_project: the open document, or none
    m_timelineModels, \* ProjectManager::m_timelineModels: the uuids it maps
    preparedClose,    \* the timeline models on which prepareClose() was called
    m_mainTimelineModel, \* ProjectManager::m_mainTimelineModel: a uuid, "" after reset()
    m_autoSaveTimer,  \* ProjectManager::m_autoSaveTimer is active
    m_lastSave,       \* ProjectManager::m_lastSave: how long ago it was started
    openEntries,      \* per entry of doOpenFile in the last call: was a project open
    pmCall,           \* the last call made on the project manager
    m_taskList,       \* TaskManager: the load tasks started so far, in order
    profileChecks,    \* profile checks requested since shouldCheckProfile was last set
    startCall         \* the last call of ClipLoadTask::start: owner, kind, started

markerVars == << markerList, markerPositions, next_id, registeredSnaps, alive,
                 snapPoints, undoStack, undoIndex, items, lastCall, tainted, calls, crashed >>

lockVars == << lockWriter, lockDepth, lockReaders, pc >>

loadVars == << taskPc, task, m_isCanceled, m_softDelete, isBlocked, clip,
              shouldCheckProfile, eventQueue, taskLog >>

docVars == << guides, docStack, docIndex, cleanIndex, docUrl, docModified, projectPath,
             docNextId, docPushes, docCall >>

trackVars == << trackItems, trackCall >>

tlVars == << tlTracks, tlGroups, tlCall >>

pmVars == << m_project, m_timelineModels, preparedClose, m_mainTimelineModel,
            m_autoSaveTimer, m_lastSave, openEntries, pmCall >>

poolVars == << m_taskList, profileChecks, startCall >>

newVars == << tlVars, pmVars, poolVars >>

extVars == << docVars, trackVars, newVars >>

vars == << markerVars, lockVars, loadVars, extVars >>

\* ------------------------------------------------------------ GenTime
\* GenTime(frames, fps): the time of a frame, kept here in milliseconds
GenTime(f) == (f * 1000) \div Fps

\* GenTime::frames(fps): floor(seconds * fps + 0.5)
frames(t) == (t * Fps + 500) \div 1000

\* CommentedTime(time, comment, type)
CommentedTime(t, c, ty) == [time |-> t, comment |-> c, type |-> ty]

\* CommentedTime(): the default-constructed marker
CommentedTime0 == CommentedTime(GenTime(0), "", 0)

\* ------------------------------------------------- containers (std / Qt)
\* std::map::erase(key), QMap::remove(key)
MapRemove(m, k) == [x \in (DOMAIN m) \ {k} |-> m[x]]

\* QMap::insert(key, value), std::map operator[] assignment: replaces
MapInsert(m, k, v) == [x \in (DOMAIN m) \cup {k} |-> IF x = k THEN v ELSE m[x]]

EmptyMap == [x \in {} |-> 0]

\* the elements of a set of integers in increasing order (map iteration order)
RECURSIVE SortedSeq(_)
SortedSeq(S) ==
    IF S = {} THEN << >>
    ELSE LET m == CHOOSE x \in S : \A y \in S : x <= y
         IN << m >> \o SortedSeq(S \ {m})

\* ------------------------------------------------------- snap consumers
\* SnapModel::addPoint(position)
addPoint(points, f) ==
    IF f \in DOMAIN points THEN [points EXCEPT ![f] = @ + 1]
    ELSE MapInsert(points, f, 1)

\* SnapModel::removePoint(position): the last contribution removes the point
removePoint(points, f) ==
    IF f \notin DOMAIN points THEN points
    ELSE IF points[f] = 1 THEN MapRemove(points, f)
    ELSE [points EXCEPT ![f] = @ - 1]

\* number of entries of the consumer list that designate consumer s
Occurrences(reg, s) == Cardinality({i \in 1 .. Len(reg) : reg[i] = s})

\* a point notified once per entry of the consumer list
RECURSIVE addPointN(_, _, _)
addPointN(points, f, n) ==
    IF n = 0 THEN points ELSE addPointN(addPoint(points, f), f, n - 1)

RECURSIVE removePointN(_, _, _)
removePointN(points, f, n) ==
    IF n = 0 THEN points ELSE removePointN(removePoint(points, f), f, n - 1)

IsAlive(s) == s \in alive

\* an addSnapPoint that notifies the live consumers but keeps every entry
addSnapPoint_keepsExpired(st, pos) ==
    LET valid == SelectSeq(st.reg, IsAlive)
    IN [st EXCEPT !.pts = [s \in Consumers |->
                              addPointN(st.pts[s], frames(pos), Occurrences(valid, s))]]

\* MarkerListModel::addSnapPoint: notify the live consumers, keep only those
addSnapPoint(st, pos) ==
    LET valid == SelectSeq(st.reg, IsAlive)
    IN [st EXCEPT !.reg = valid,
                  !.pts = [s \in Consumers |->
                              addPointN(st.pts[s], frames(pos), Occurrences(valid, s))]]

\* MarkerListModel::removeSnapPoint
removeSnapPoint(st, pos) ==
    LET valid == SelectSeq(st.reg, IsAlive)
    IN [st EXCEPT !.reg = valid,
                  !.pts = [s \in Consumers |->
                              removePointN(st.pts[s], frames(pos), Occurrences(valid, s))]]

\* ------------------------------------------------------------- queries
\* MarkerListModel::hasMarker(GenTime) / hasMarker(int frame)
hasMarker(st, pos) == frames(pos) \in DOMAIN st.mp

\* MarkerListModel::getIdFromPos / markerIdAtFrame
getIdFromPos(st, frame) == IF frame \in DOMAIN st.mp THEN st.mp[frame] ELSE -1

\* MarkerListModel::marker(GenTime)
marker(st, pos) ==
    LET mid == getIdFromPos(st, frames(pos))
    IN IF mid > -1 /\ mid \in DOMAIN st.ml THEN st.ml[mid] ELSE CommentedTime0

\* TimelineModel::getNextId(): return next_id++
getNextId(st) == [id |-> st.id, st |-> [st EXCEPT !.id = @ + 1]]

\* MarkerListModel::getRowfromId: Q_ASSERT(m_markerList.count(mid) > 0)
getRowfromIdOk(st, mid) == mid \in DOMAIN st.ml

\* --------------------------------------------------- the undo closures
\* A Fun is the sequence of primitive closures it runs, in order.  Each of
\* the three closures returns true; a failed Q_ASSERT is recorded in .bad
\* and the closure goes on as a release build does.
Prim(k, pos, comment, type) == [k |-> k, pos |-> pos, comment |-> comment, type |-> type]

\* a changeComment_lambda that writes the comment and leaves the type
changeComment_lambda_keepType(st, pos, comment, type) ==
    LET mid == getIdFromPos(st, frames(pos))
        old == IF mid \in DOMAIN st.ml THEN st.ml[mid] ELSE CommentedTime0
    IN [st EXCEPT !.bad = @ \/ ~hasMarker(st, pos) \/ ~getRowfromIdOk(st, mid),
                  !.ml = MapInsert(st.ml, mid, [old EXCEPT !.comment = comment])]

\* the closure returned by MarkerListModel::changeComment_lambda
changeComment_lambda(st, pos, comment, type) ==
    LET mid == getIdFromPos(st, frames(pos))
        old == IF mid \in DOMAIN st.ml THEN st.ml[mid] ELSE CommentedTime0
    IN [st EXCEPT !.bad = @ \/ ~hasMarker(st, pos) \/ ~getRowfromIdOk(st, mid),
                  !.ml = MapInsert(st.ml, mid, [old EXCEPT !.comment = comment, !.type = type])]

\* the closure returned by MarkerListModel::addMarker_lambda
addMarker_lambda(st, pos, comment, type) ==
    LET g == getNextId(st)
        s1 == [g.st EXCEPT !.bad = @ \/ hasMarker(st, pos),
                           !.ml = MapInsert(st.ml, g.id, CommentedTime(pos, comment, type)),
                           !.mp = MapInsert(st.mp, frames(pos), g.id)]
    IN addSnapPoint(s1, pos)

\* a deleteMarker_lambda that does not tell the snap consumers
deleteMarker_lambda_keepSnap(st, pos) ==
    LET mid == getIdFromPos(st, frames(pos))
    IN [st EXCEPT !.bad = @ \/ ~hasMarker(st, pos) \/ ~getRowfromIdOk(st, mid),
                  !.ml = MapRemove(st.ml, mid),
                  !.mp = MapRemove(st.mp, frames(pos))]

\* the closure returned by MarkerListModel::deleteMarker_lambda
deleteMarker_lambda(st, pos) ==
    LET mid == getIdFromPos(st, frames(pos))
        s1 == [st EXCEPT !.bad = @ \/ ~hasMarker(st, pos) \/ ~getRowfromIdOk(st, mid),
                         !.ml = MapRemove(st.ml, mid),
                         !.mp = MapRemove(st.mp, frames(pos))]
    IN removeSnapPoint(s1, pos)

\* calling one primitive closure
CallPrim(st, p) ==
    CASE p.k = "chg" -> changeComment_lambda(st, p.pos, p.comment, p.type)
      [] p.k = "add" -> addMarker_lambda(st, p.pos, p.comment, p.type)
      [] p.k = "del" -> deleteMarker_lambda(st, p.pos)

\* calling a Fun: its closures in order (each returns true, so does the Fun)
RECURSIVE CallFun(_, _)
CallFun(st, fun) ==
    IF fun = << >> THEN st ELSE CallFun(CallPrim(st, Head(fun)), Tail(fun))

\* macro UPDATE_UNDO_REDO(operation, reverse, undo, redo):
\*   undo = [reverse, undo]() { bool v = reverse(); return undo() && v; }
\*   redo = [operation, redo]() { bool v = redo(); return operation() && v; }
UPDATE_UNDO_REDO(operation, reverse, r) ==
    [r EXCEPT !.undo = << reverse >> \o @, !.redo = @ \o << operation >>]

\* the result of a call that takes (Fun &undo, Fun &redo)
Result(st, res, undo, redo) == [st |-> st, res |-> res, undo |-> undo, redo |-> redo]

\* bool MarkerListModel::addMarker(GenTime, const QString &, int, Fun &undo, Fun &redo)
addMarker_undo(st, pos, comment, type0, undo, redo) ==
    LET type == IF type0 = -1 THEN DefaultMarkerType ELSE type0
        current == marker(st, pos)
        rename == hasMarker(st, pos)
        local_undo == IF rename THEN Prim("chg", pos, current.comment, current.type)
                      ELSE Prim("del", pos, "", 0)
        local_redo == IF rename THEN Prim("chg", pos, comment, type)
                      ELSE Prim("add", pos, comment, type)
    IN UPDATE_UNDO_REDO(local_redo, local_undo,
                        Result(CallPrim(st, local_redo), TRUE, undo, redo))

\* a removeMarker whose undo re-creates the marker without its comment
removeMarker_undo_noComment(st, pos, undo, redo) ==
    IF ~hasMarker(st, pos) THEN Result(st, FALSE, undo, redo)
    ELSE LET current == marker(st, pos)
             local_undo == Prim("add", pos, "", current.type)
             local_redo == Prim("del", pos, "", 0)
         IN UPDATE_UNDO_REDO(local_redo, local_undo,
                             Result(CallPrim(st, local_redo), TRUE, undo, redo))

\* bool MarkerListModel::removeMarker(GenTime, Fun &undo, Fun &redo)
removeMarker_undo(st, pos, undo, redo) ==
    IF ~hasMarker(st, pos) THEN Result(st, FALSE, undo, redo)
    ELSE LET current == marker(st, pos)
             local_undo == Prim("add", pos, current.comment, current.type)
             local_redo == Prim("del", pos, "", 0)
         IN UPDATE_UNDO_REDO(local_redo, local_undo,
                             Result(CallPrim(st, local_redo), TRUE, undo, redo))

\* ------------------------------------------------- the public operations
\* What a public call leaves behind: the list, the return value, and the
\* command it pushed, if any (PUSH_UNDO(undo, redo, text)).
Outcome(r, push, text) ==
    [st |-> r.st, res |-> r.res, push |-> push, undo |-> r.undo, redo |-> r.redo, text |-> text]

\* an addMarker that asks whether the frame carries a marker after adding it
addMarker_lateRename(st, pos, comment, type) ==
    LET r == addMarker_undo(st, pos, comment, type, NoFun, NoFun)
        rename == hasMarker(r.st, pos)
    IN Outcome(r, r.res, IF rename THEN "Rename guide" ELSE "Add guide")

\* bool MarkerListModel::addMarker(GenTime pos, const QString &comment, int type)
\* (the list is a guide list, m_guide: the texts are those of guides)
addMarker(st, pos, comment, type) ==
    LET rename == hasMarker(st, pos)
        r == addMarker_undo(st, pos, comment, type, NoFun, NoFun)
    IN Outcome(r, r.res, IF rename THEN "Rename guide" ELSE "Add guide")

\* the loop of addMarkers over the QMap, in key order
RECURSIVE addMarkersLoop(_, _, _, _)
addMarkersLoop(r, keys, markers, type) ==
    IF keys = << >> \/ ~r.res THEN r
    ELSE LET k == Head(keys)
             rn == r.rename \/ hasMarker(r.st, GenTime(k))
             a == addMarker_undo(r.st, GenTime(k), markers[k], type, r.undo, r.redo)
         IN addMarkersLoop([st |-> a.st, res |-> a.res, undo |-> a.undo, redo |-> a.redo,
                            rename |-> rn],
                           Tail(keys), markers, type)

\* bool MarkerListModel::addMarkers(const QMap<GenTime, QString> &markers, int type)
\* (markers: frame -> comment)
addMarkers(st, markers, type) ==
    LET r == addMarkersLoop([st |-> st, res |-> TRUE, undo |-> NoFun, redo |-> NoFun,
                             rename |-> FALSE],
                            SortedSeq(DOMAIN markers), markers, type)
    IN Outcome(r, r.res, IF r.rename THEN "Rename guide" ELSE "Add guide")

\* bool MarkerListModel::removeMarker(GenTime pos)
removeMarker(st, pos) ==
    LET r == removeMarker_undo(st, pos, NoFun, NoFun)
    IN Outcome(r, r.res, "Delete guide")

\* an editMarker without the early return for an unchanged marker
editMarker_noShortcut(st, oldPos, pos, comment0, type0) ==
    LET current == marker(st, oldPos)
        comment == IF comment0 = "" THEN current.comment ELSE comment0
        type == IF type0 = -1 THEN current.type ELSE type0
        r1 == removeMarker_undo(st, oldPos, NoFun, NoFun)
        r2 == IF r1.res
              THEN addMarker_undo(r1.st, pos, comment, type, r1.undo, r1.redo)
              ELSE r1
    IN IF r2.res THEN Outcome(r2, TRUE, "Edit guide")
       ELSE Outcome([r2 EXCEPT !.st = CallFun(r2.st, r2.undo)], FALSE, "")

\* bool MarkerListModel::editMarker(GenTime oldPos, GenTime pos, QString comment, int type)
editMarker(st, oldPos, pos, comment0, type0) ==
    LET current == marker(st, oldPos)
        comment == IF comment0 = "" THEN current.comment ELSE comment0
        type == IF type0 = -1 THEN current.type ELSE type0
    IN IF oldPos = pos /\ current.comment = comment /\ current.type = type
       THEN Outcome(Result(st, TRUE, NoFun, NoFun), FALSE, "")
       ELSE LET r1 == removeMarker_undo(st, oldPos, NoFun, NoFun)
                r2 == IF r1.res
                      THEN addMarker_undo(r1.st, pos, comment, type, r1.undo, r1.redo)
                      ELSE r1
            IN IF r2.res THEN Outcome(r2, TRUE, "Edit guide")
               ELSE Outcome([r2 EXCEPT !.st = CallFun(r2.st, r2.undo)], FALSE, "")

\* bool MarkerListModel::moveMarker(int mid, GenTime pos)
moveMarker(st, mid, pos) ==
    IF hasMarker(st, pos) THEN Outcome(Result(st, FALSE, NoFun, NoFun), FALSE, "")
    ELSE LET oldPos == frames(st.ml[mid].time)
             s1 == [st EXCEPT !.ml = [@ EXCEPT ![mid].time = pos],
                              !.mp = MapInsert(MapRemove(st.mp, oldPos), frames(pos), mid)]
         IN Outcome(Result(s1, TRUE, NoFun, NoFun), FALSE, "")

\* void MarkerListModel::moveMarkersWithoutUndo(const QVector<int> &markersId, int offset, bool)
RECURSIVE moveMarkersWithoutUndo(_, _, _)
moveMarkersWithoutUndo(st, markersId, offset) ==
    IF markersId = << >> THEN st
    ELSE LET mid == Head(markersId)
             t0 == st.ml[mid].time
             t == t0 + GenTime(offset)
             s1 == [st EXCEPT !.mp = MapInsert(MapRemove(st.mp, frames(t0)), frames(t), mid),
                              !.ml = [@ EXCEPT ![mid].time = t]]
         IN moveMarkersWithoutUndo(s1, Tail(markersId), offset)

\* the loop of moveMarkers: remove at the old time, add at the shifted one
RECURSIVE moveMarkersLoop(_, _, _)
moveMarkersLoop(r, markers, delta) ==
    IF markers = << >> THEN r
    ELSE LET m == Head(markers)
             newPos == m.time + delta
             r1 == removeMarker_undo(r.st, m.time, r.undo, r.redo)
         IN IF r1.res
            THEN moveMarkersLoop(addMarker_undo(r1.st, newPos, m.comment, m.type, r1.undo, r1.redo),
                                 Tail(markers), delta)
            ELSE r1

\* bool MarkerListModel::moveMarkers(const QList<CommentedTime> &, GenTime fromPos,
\*                                   GenTime toPos, Fun &undo, Fun &redo)
moveMarkers(st, markers, fromPos, toPos, undo, redo) ==
    IF Len(markers) <= 0 THEN Result(st, FALSE, undo, redo)
    ELSE moveMarkersLoop(Result(st, FALSE, undo, redo), markers, toPos - fromPos)

\* the entries of a parsed JSON array: an object with its fields, or another value
JsonObject(pos, comment, type) ==
    [isObject |-> TRUE, hasPos |-> TRUE, pos |-> pos, comment |-> comment, type |-> type]
JsonNoPos == [isObject |-> TRUE, hasPos |-> FALSE, pos |-> 0, comment |-> "a", type |-> 0]
JsonNotObject == [isObject |-> FALSE, hasPos |-> FALSE, pos |-> 0, comment |-> "", type |-> 0]

\* an import loop that stops at a conflict without calling undo
RECURSIVE importLoop_noRollback(_, _, _)
importLoop_noRollback(r, list, ignoreConflicts) ==
    IF list = << >> THEN [r EXCEPT !.res = TRUE]
    ELSE LET entry == Head(list) IN
         IF ~entry.isObject \/ ~entry.hasPos
         THEN importLoop_noRollback(r, Tail(list), ignoreConflicts)
         ELSE LET pos == GenTime(entry.pos)
                  type == IF entry.type < 0 \/ entry.type >= MarkerTypesSize THEN 0 ELSE entry.type
                  oldMarker == marker(r.st, pos)
                  res == IF ~ignoreConflicts /\ hasMarker(r.st, pos)
                         THEN oldMarker.comment = entry.comment /\ type = oldMarker.type
                         ELSE TRUE
              IN IF res
                 THEN importLoop_noRollback(
                          addMarker_undo(r.st, pos, entry.comment, type, r.undo, r.redo),
                          Tail(list), ignoreConflicts)
                 ELSE [r EXCEPT !.res = FALSE]

\* an import loop that leaves the loop at an invalid entry instead of going on
RECURSIVE importLoop_stopsAtInvalid(_, _, _)
importLoop_stopsAtInvalid(r, list, ignoreConflicts) ==
    IF list = << >> THEN [r EXCEPT !.res = TRUE]
    ELSE LET entry == Head(list) IN
         IF ~entry.isObject \/ ~entry.hasPos THEN [r EXCEPT !.res = TRUE]
         ELSE LET pos == GenTime(entry.pos)
                  type == IF entry.type < 0 \/ entry.type >= MarkerTypesSize THEN 0 ELSE entry.type
                  oldMarker == marker(r.st, pos)
                  res == IF ~ignoreConflicts /\ hasMarker(r.st, pos)
                         THEN oldMarker.comment = entry.comment /\ type = oldMarker.type
                         ELSE TRUE
              IN IF res
                 THEN importLoop_stopsAtInvalid(
                          addMarker_undo(r.st, pos, entry.comment, type, r.undo, r.redo),
                          Tail(list), ignoreConflicts)
                 ELSE [r EXCEPT !.st = CallFun(r.st, r.undo), !.res = FALSE]

\* the loop of importFromJson over the array
RECURSIVE importLoop(_, _, _)
importLoop(r, list, ignoreConflicts) ==
    IF list = << >> THEN [r EXCEPT !.res = TRUE]
    ELSE LET entry == Head(list) IN
         IF ~entry.isObject \/ ~entry.hasPos THEN importLoop(r, Tail(list), ignoreConflicts)
         ELSE LET pos == GenTime(entry.pos)
                  type == IF entry.type < 0 \/ entry.type >= MarkerTypesSize THEN 0 ELSE entry.type
                  oldMarker == marker(r.st, pos)
                  res == IF ~ignoreConflicts /\ hasMarker(r.st, pos)
                         THEN oldMarker.comment = entry.comment /\ type = oldMarker.type
                         ELSE TRUE
              IN IF res
                 THEN importLoop(addMarker_undo(r.st, pos, entry.comment, type, r.undo, r.redo),
                                 Tail(list), ignoreConflicts)
                 ELSE [r EXCEPT !.st = CallFun(r.st, r.undo), !.res = FALSE]

\* bool MarkerListModel::importFromJson(const QString &, bool ignoreConflicts, Fun &, Fun &)
\* (data: the parsed document, an array or not)
importFromJson_undo(st, data, ignoreConflicts, undo, redo) ==
    IF ~data.isArray THEN Result(st, FALSE, undo, redo)
    ELSE importLoop(Result(st, TRUE, undo, redo), data.list, ignoreConflicts)

\* bool MarkerListModel::importFromJson(const QString &, bool ignoreConflicts, bool pushUndo)
importFromJson(st, data, ignoreConflicts, pushUndo) ==
    LET r == importFromJson_undo(st, data, ignoreConflicts, NoFun, NoFun)
    IN Outcome(r, pushUndo, "Import guides")

\* QString MarkerListModel::toJson() const: one object per marker of
\* m_markerList, in the order of the map (by id); pos is time().frames(fps)
toJson(st) ==
    LET ids == SortedSeq(DOMAIN st.ml)
    IN [isArray |-> TRUE,
        list |-> [k \in 1 .. Len(ids) |->
                     JsonObject(frames(st.ml[ids[k]].time), st.ml[ids[k]].comment,
                                st.ml[ids[k]].type)]]

\* std::sort(markers.begin(), markers.end()) on CommentedTime: by time; the
\* markers are named by their ids here, and markers of equal time, whose order
\* std::sort leaves open, are put in the order of their ids
RECURSIVE SortByTime(_, _)
SortByTime(ml, ids) ==
    IF ids = {} THEN << >>
    ELSE LET m == CHOOSE i \in ids :
                     \A j \in ids : ml[i].time < ml[j].time
                                     \/ (ml[i].time = ml[j].time /\ i <= j)
         IN << m >> \o SortByTime(ml, ids \ {m})

\* QList<CommentedTime> MarkerListModel::getAllMarkers(int type) const
getAllMarkers(st, type) ==
    SortByTime(st.ml, {i \in DOMAIN st.ml : type = -1 \/ st.ml[i].type = type})

\* QVector<int> MarkerListModel::getMarkersIdInRange(int start, int end) const:
\* walks m_markerPositions in key order, stops at the first key above end
getMarkersIdInRange(st, start, end) ==
    LET keys == {f \in DOMAIN st.mp : (end > -1 => f <= end) /\ f >= start}
        ks == SortedSeq(keys)
    IN [k \in 1 .. Len(ks) |-> st.mp[ks[k]]]

\* QList<CommentedTime> MarkerListModel::getMarkersInRange(int start, int end) const
getMarkersInRange(st, start, end) ==
    LET mids == getMarkersIdInRange(st, start, end)
    IN SortByTime(st.ml, {mids[k] : k \in DOMAIN mids})

\* the loop of removeAllMarkers over the collected times
RECURSIVE removeAllLoop(_, _)
removeAllLoop(r, all_pos) ==
    IF all_pos = << >> THEN r
    ELSE LET r1 == removeMarker_undo(r.st, Head(all_pos), r.undo, r.redo)
         IN IF r1.res THEN removeAllLoop(r1, Tail(all_pos))
            ELSE [r1 EXCEPT !.st = CallFun(r1.st, r1.undo)]

\* bool MarkerListModel::removeAllMarkers()
removeAllMarkers(st) ==
    LET ids == SortedSeq(DOMAIN st.ml)
        all_pos == [i \in 1 .. Len(ids) |-> st.ml[ids[i]].time]
        r == removeAllLoop(Result(st, TRUE, NoFun, NoFun), all_pos)
    IN Outcome(r, r.res, "Delete all guides")

\* void MarkerListModel::registerSnapModel(const std::weak_ptr<SnapInterface> &)
RECURSIVE seedPoints(_, _)
seedPoints(points, keys) ==
    IF keys = << >> THEN points ELSE seedPoints(addPoint(points, Head(keys)), Tail(keys))

registerSnapModel(st, s) ==
    [st EXCEPT !.reg = Append(@, s),
               !.pts = [@ EXCEPT ![s] = seedPoints(@, SortedSeq(DOMAIN st.mp))]]

\* ------------------------------------------------------ the command stack
\* FunctionalUndoCommand(undo, redo, text); before and after record the list
\* as it was when the command was pushed (not program state)
Cmd(o, before) ==
    [undo |-> o.undo, redo |-> o.redo, text |-> o.text, before |-> before, after |-> o.st.ml]

\* a push that leaves the undone commands on the stack
push_keepsUndone(stack, index, cmd) == Append(stack, cmd)

\* QUndoStack::push: drops the undone commands above the index, appends
push(stack, index, cmd) == Append(SubSeq(stack, 1, index), cmd)

\* the list and the services it uses, as one value
St == [ml |-> markerList, mp |-> markerPositions, id |-> next_id,
       reg |-> registeredSnaps, pts |-> snapPoints, bad |-> FALSE]

Call(op, ret, tag) == [op |-> op, ret |-> ret, tag |-> tag]

\* the list after a call; a call in which a Q_ASSERT failed either aborts the
\* process (debug build) or goes on (release build)
Install(st) ==
    /\ markerList' = st.ml
    /\ markerPositions' = st.mp
    /\ next_id' = st.id
    /\ registeredSnaps' = st.reg
    /\ snapPoints' = st.pts

Abort(op) ==
    /\ crashed' = TRUE
    /\ lastCall' = Call(op, FALSE, "abort")
    /\ UNCHANGED << markerList, markerPositions, next_id, registeredSnaps, alive,
                    snapPoints, undoStack, undoIndex, items, tainted, calls >>

Apply(o, op, tag) ==
    /\ ~crashed
    /\ UNCHANGED << lockVars, loadVars, extVars >>
    /\ calls < MaxCalls
    /\ o.st.id <= MaxId + 1
    /\ o.push => undoIndex < MaxStack
    /\ \/ o.st.bad /\ Abort(op)
       \/ /\ Install(o.st)
          /\ undoStack' = IF o.push THEN push(undoStack, undoIndex, Cmd(o, markerList))
                          ELSE undoStack
          /\ undoIndex' = IF o.push THEN undoIndex + 1 ELSE undoIndex
          /\ lastCall' = Call(op, o.res, tag)
          /\ tainted' = (tainted \/ (~o.push /\ o.st.ml # markerList) \/ (o.push /\ ~o.res))
          /\ calls' = calls + 1
          /\ UNCHANGED << alive, items, crashed >>

\* ---------------------------------------------------------------- actions
AddMarkerCall(t, c, ty) ==
    Apply(addMarker(St, GenTime(t), c, ty), "addMarker",
          IF hasMarker(St, GenTime(t)) THEN "rename"
          ELSE IF \E i \in 1 .. Len(registeredSnaps) : registeredSnaps[i] \notin alive
               THEN "add, pruning"
               ELSE "add")

AddMarker ==
    \E t \in Frames, c \in Comments, ty \in Types \cup {-1} : AddMarkerCall(t, c, ty)

\* the maps a caller may pass to addMarkers: one or two frames with comments
MarkerMaps ==
    UNION {[S -> Comments] : S \in {S \in SUBSET Frames : Cardinality(S) \in {1, 2}}}

AddMarkersCall(m, ty) == Apply(addMarkers(St, m, ty), "addMarkers", "batch")

AddMarkers == \E m \in MarkerMaps, ty \in Types : AddMarkersCall(m, ty)

RemoveMarkerCall(t) ==
    Apply(removeMarker(St, GenTime(t)), "removeMarker",
          IF hasMarker(St, GenTime(t)) THEN "removed" ELSE "absent")

RemoveMarker == \E t \in Frames : RemoveMarkerCall(t)

EditMarkerCall(old, new, c, ty) ==
    LET o == editMarker(St, GenTime(old), GenTime(new), c, ty)
    IN Apply(o, "editMarker",
             IF ~o.push THEN "same"
             ELSE IF old # new /\ hasMarker(St, GenTime(new)) THEN "collision"
             ELSE IF old # new THEN "move" ELSE "change")

\* Q_ASSERT(hasMarker(oldPos)): the caller edits a marker it found in the list
EditMarker ==
    \E old \in DOMAIN markerPositions, new \in Frames,
       c \in Comments \cup {""}, ty \in Types \cup {-1} : EditMarkerCall(old, new, c, ty)

MoveMarkerCall(mid, pos) ==
    LET o == moveMarker(St, mid, GenTime(pos))
    IN Apply(o, "moveMarker", IF o.res THEN "moved" ELSE "occupied")

\* Q_ASSERT(m_markerList.count(mid) > 0): the id of a stored marker
MoveMarker == \E mid \in DOMAIN markerList, pos \in Frames : MoveMarkerCall(mid, pos)

\* the id vectors a caller may pass: one or two distinct stored ids, any order
IdVectors ==
    {<< a >> : a \in DOMAIN markerList} \cup
    {q \in {<< a, b >> : a, b \in DOMAIN markerList} : q[1] # q[2]}

SeqRange(q) == {q[i] : i \in 1 .. Len(q)}

MoveMarkersWithoutUndoCall(ids, offset) ==
    Apply(Outcome(Result(moveMarkersWithoutUndo(St, ids, offset), TRUE, NoFun, NoFun),
                  FALSE, ""),
          "moveMarkersWithoutUndo", "moved")

\* the offsets keep every listed marker on the frames of the model
MoveMarkersWithoutUndo ==
    \E ids \in IdVectors, offset \in (-MaxFrame .. MaxFrame) \ {0} :
        /\ \A mid \in SeqRange(ids) : frames(markerList[mid].time) + offset \in Frames
        /\ MoveMarkersWithoutUndoCall(ids, offset)

\* the markers a caller may pass to moveMarkers: markers it read from the list,
\* or one the list does not hold (any more)
MarkerValues ==
    {markerList[mid] : mid \in DOMAIN markerList} \cup
    {CommentedTime(GenTime(f), "a", 0) : f \in Frames \ DOMAIN markerPositions}

MarkerLists ==
    {<< a >> : a \in MarkerValues} \cup {<< a, b >> : a, b \in MarkerValues}

\* moveMarkers records into the caller's undo and redo; the caller pushes them
\* as one command when the call succeeded
MoveMarkersCall(ms, delta) ==
    LET r == moveMarkers(St, ms, GenTime(0), GenTime(0) + GenTime(delta), NoFun, NoFun)
    IN Apply(Outcome(r, r.res, "Move guides"), "moveMarkers",
             IF r.res THEN "moved" ELSE "failed")

MoveMarkers ==
    \E ms \in MarkerLists, delta \in (-MaxFrame .. MaxFrame) \ {0} :
        /\ \A i \in 1 .. Len(ms) : frames(ms[i].time) + delta \in Frames
        /\ MoveMarkersCall(ms, delta)

\* the documents handed to importFromJson
JsonEntries ==
    {JsonObject(f, c, 0) : f \in Frames, c \in Comments} \cup
    {JsonObject(0, "a", 1), JsonObject(1, "b", MarkerTypesSize), JsonNoPos, JsonNotObject}

\* arrays of at most two entries; the two-entry arrays are made of two records,
\* or of a record and an invalid entry
JsonLists ==
    {<< >>} \cup {<< a >> : a \in JsonEntries} \cup
    {<< JsonObject(f, "a", 0), JsonObject(g, "b", 0) >> : f, g \in Frames} \cup
    {<< bad, JsonObject(f, "b", 1) >> : bad \in {JsonNoPos, JsonNotObject}, f \in Frames} \cup
    {<< JsonObject(f, "b", 1), bad >> : bad \in {JsonNoPos, JsonNotObject}, f \in Frames}

\* the positions of the array that hold a record with a pos field
Records(list) == {i \in DOMAIN list : list[i].isObject /\ list[i].hasPos}

ImportData ==
    {[isArray |-> FALSE, list |-> << >>]} \cup {[isArray |-> TRUE, list |-> l] : l \in JsonLists}

ImportFromJsonCall(data, ignoreConflicts, pushUndo) ==
    LET o == importFromJson(St, data, ignoreConflicts, pushUndo)
    IN Apply(o, "importFromJson",
             IF o.res
             THEN IF Records(data.list) \notin {{}, DOMAIN data.list} THEN "skipped"
                  ELSE "imported"
             ELSE IF ~data.isArray THEN "notarray"
             ELSE IF o.st.id # next_id THEN "rolledback" ELSE "conflict")

ImportFromJson ==
    \E data \in ImportData, ignoreConflicts \in BOOLEAN, pushUndo \in BOOLEAN :
        ImportFromJsonCall(data, ignoreConflicts, pushUndo)

RemoveAllMarkers ==
    LET o == removeAllMarkers(St)
    IN Apply(o, "removeAllMarkers", IF o.res THEN "removed" ELSE "failed")

\* QUndoStack::undo: FunctionalUndoCommand::undo calls the command's undo
Undo ==
    /\ undoIndex > 0
    /\ LET cmd == undoStack[undoIndex]
           st == CallFun(St, cmd.undo)
       IN /\ ~crashed
          /\ UNCHANGED << lockVars, loadVars, extVars >>
          /\ st.id <= MaxId + 1
          /\ \/ st.bad /\ Abort("undo")
             \/ /\ Install(st)
                /\ undoIndex' = undoIndex - 1
                /\ lastCall' = Call("undo", TRUE, cmd.text)
                /\ tainted' = tainted
                /\ UNCHANGED << undoStack, alive, items, calls, crashed >>

\* QUndoStack::redo: FunctionalUndoCommand::redo calls the command's redo
Redo ==
    /\ undoIndex < Len(undoStack)
    /\ LET cmd == undoStack[undoIndex + 1]
           st == CallFun(St, cmd.redo)
       IN /\ ~crashed
          /\ UNCHANGED << lockVars, loadVars, extVars >>
          /\ st.id <= MaxId + 1
          /\ \/ st.bad /\ Abort("redo")
             \/ /\ Install(st)
                /\ undoIndex' = undoIndex + 1
                /\ lastCall' = Call("redo", TRUE, cmd.text)
                /\ tainted' = tainted
                /\ UNCHANGED << undoStack, alive, items, calls, crashed >>

\* a snap consumer (a live SnapInterface) registers with the list, which
\* holds fewer than limit consumers
Register(limit) ==
    \E s \in alive :
        /\ ~crashed
        /\ Len(registeredSnaps) < limit
        /\ Install(registerSnapModel(St, s))
        /\ lastCall' = Call("registerSnapModel", TRUE, "")
        /\ UNCHANGED << lockVars, loadVars, extVars >>
        /\ UNCHANGED << alive, undoStack, undoIndex, items, tainted, calls, crashed >>

RegisterSnapModel == Register(MaxReg)

\* the first consumer: the snap model of the timeline that owns the list
RegisterFirst == Register(1)

\* the last shared_ptr of a snap consumer goes away: its weak_ptr expires
Expire ==
    \E s \in alive :
        /\ ~crashed
        /\ alive' = alive \ {s}
        /\ snapPoints' = [snapPoints EXCEPT ![s] = EmptyMap]
        /\ lastCall' = Call("expire", TRUE, "")
        /\ UNCHANGED << lockVars, loadVars, extVars >>
        /\ UNCHANGED << markerList, markerPositions, next_id, registeredSnaps,
                        undoStack, undoIndex, items, tainted, calls, crashed >>

\* a new document: the main timeline with an empty guide list, no file name,
\* an empty and clean command stack
MainTimeline == "main"

EmptyGuides == [ml |-> EmptyMap, mp |-> EmptyMap]

InitDoc ==
    /\ guides = [tl \in {MainTimeline} |-> EmptyGuides]
    /\ docStack = << >>
    /\ docIndex = 0
    /\ cleanIndex = 0
    /\ docUrl = ""
    /\ docModified = FALSE
    /\ projectPath = ""
    /\ docNextId = FirstId
    /\ docPushes = 0
    /\ docCall = Call("init", TRUE, "")

\* an empty track
InitTrack ==
    /\ trackItems = << >>
    /\ trackCall = Call("init", TRUE, "")

\* a timeline of empty tracks
InitTimeline ==
    /\ tlTracks = [tr \in 1 .. 2 |-> << >>]
    /\ tlGroups = {}
    /\ tlCall = Call("init", TRUE, "")

\* no KdenliveDoc
NoProject == [open |-> FALSE, url |-> "", modified |-> FALSE, autosave |-> << >>]

\* ProjectManager::ProjectManager: no project, no timeline, timers not started
InitManager ==
    /\ m_project = NoProject
    /\ m_timelineModels = {}
    /\ preparedClose = {}
    /\ m_mainTimelineModel = ""
    /\ m_autoSaveTimer = FALSE
    /\ m_lastSave = "invalid"
    /\ openEntries = << >>
    /\ pmCall = Call("init", TRUE, "")

\* no load task was started yet
InitPool ==
    /\ m_taskList = << >>
    /\ profileChecks = 0
    /\ startCall = [owner |-> 0, thumbOnly |-> FALSE, started |-> FALSE]

\* everything but the markers of the list
InitOther ==
    /\ registeredSnaps = << >>
    /\ alive = Consumers
    /\ snapPoints = [s \in Consumers |-> EmptyMap]
    /\ undoStack = << >>
    /\ undoIndex = 0
    /\ items = << >>
    /\ lastCall = Call("init", TRUE, "")
    /\ tainted = FALSE
    /\ calls = 0
    /\ crashed = FALSE
    /\ lockWriter = 0
    /\ lockDepth = 0
    /\ lockReaders = {}
    /\ pc = [t \in Threads |-> Idle]
    /\ taskPc = "none"
    /\ task = NoTask
    /\ m_isCanceled = FALSE
    /\ m_softDelete = FALSE
    /\ isBlocked = FALSE
    /\ clip = NoClip
    /\ shouldCheckProfile = FALSE
    /\ eventQueue = << >>
    /\ taskLog = {}
    /\ InitDoc
    /\ InitTrack
    /\ InitTimeline
    /\ InitManager
    /\ InitPool

Init ==
    /\ markerList = EmptyMap
    /\ markerPositions = EmptyMap
    /\ next_id = FirstId
    /\ InitOther

\* the guide lists of a document that was just opened: two guides read with
\* importFromJson(data, true, false)
LoadedGuides ==
    {[isArray |-> TRUE, list |-> << JsonObject(f, c, 0), JsonObject(g, "b", ty) >>] :
        f \in Frames, g \in Frames, c \in Comments, ty \in Types}

InitLoaded ==
    /\ \E data \in LoadedGuides :
          LET o == importFromJson([ml |-> EmptyMap, mp |-> EmptyMap, id |-> FirstId,
                                   reg |-> << >>, pts |-> [s \in Consumers |-> EmptyMap],
                                   bad |-> FALSE], data, TRUE, FALSE)
          IN /\ o.res /\ ~o.st.bad /\ Cardinality(DOMAIN o.st.ml) = 2
             /\ markerList = o.st.ml
             /\ markerPositions = o.st.mp
             /\ next_id = o.st.id
    /\ InitOther

\* MoveableItem::MoveableItem(parent, id): a fresh id when id is -1
\* the in and out points of a new item's service (Mlt), before any setInOut
NewService == [in |-> 0, out |-> 0]

\* a constructor that draws a fresh id whatever id it was given
MoveableItem_alwaysFresh(st, id) ==
    LET g == getNextId(st)
    IN [st |-> g.st, item |-> [id |-> g.id, position |-> -1, currentTrackId |-> -1,
                               service |-> NewService]]

MoveableItem(st, id) ==
    LET g == getNextId(st)
    IN IF id = -1
       THEN [st |-> g.st, item |-> [id |-> g.id, position |-> -1, currentTrackId |-> -1,
                                    service |-> NewService]]
       ELSE [st |-> st, item |-> [id |-> id, position |-> -1, currentTrackId |-> -1,
                                  service |-> NewService]]

\* int MoveableItem<Service>::getId() const
getId(item) == item.id

\* void MoveableItem<Service>::setPosition(int pos)
setPosition(item, pos) == [item EXCEPT !.position = pos]

\* void MoveableItem<Service>::setCurrentTrackId(int tid)
setCurrentTrackId(item, tid) == [item EXCEPT !.currentTrackId = tid]

\* void MoveableItem<Service>::setInOut(int in, int out)
setInOut(item, in, out) ==
    [item EXCEPT !.position = in, !.service = [in |-> in, out |-> out]]

ItemIds == {items[i].id : i \in 1 .. Len(items)}

\* a clip or composition is built: with a fresh id, or with the id it had (an
\* undone deletion is redone, a document is loaded); no caller builds a second
\* item for the id of an item that is alive
NewItemCall(id) ==
    LET r == MoveableItem(St, id)
    IN /\ ~crashed
       /\ Len(items) < MaxItems
       /\ r.st.id <= MaxId + 1
       /\ items' = Append(items, r.item)
       /\ next_id' = r.st.id
       /\ lastCall' = Call("MoveableItem", TRUE, IF id = -1 THEN "fresh" ELSE "explicit")
       /\ UNCHANGED << lockVars, loadVars, extVars >>
       /\ UNCHANGED << markerList, markerPositions, registeredSnaps, alive, snapPoints,
                       undoStack, undoIndex, tainted, calls, crashed >>

NewItem == \E id \in {-1} \cup ((1 .. MaxId) \ ItemIds) : NewItemCall(id)

\* a setter is called on an item that is alive
ItemCall(i, item, op) ==
    /\ ~crashed
    /\ items' = [items EXCEPT ![i] = item]
    /\ lastCall' = Call(op, TRUE, "")
    /\ UNCHANGED << lockVars, loadVars, extVars >>
    /\ UNCHANGED << markerList, markerPositions, next_id, registeredSnaps, alive,
                    snapPoints, undoStack, undoIndex, tainted, calls, crashed >>

SetPosition ==
    \E i \in 1 .. Len(items), pos \in Frames :
        ItemCall(i, setPosition(items[i], pos), "setPosition")

SetCurrentTrackId ==
    \E i \in 1 .. Len(items), tid \in {-1, 1, 2} :
        ItemCall(i, setCurrentTrackId(items[i], tid), "setCurrentTrackId")

SetInOut ==
    \E i \in 1 .. Len(items), in \in Frames, out \in Frames :
        in <= out /\ ItemCall(i, setInOut(items[i], in, out), "setInOut")

\* an item is destroyed
DestroyItem ==
    \E i \in 1 .. Len(items) :
        /\ ~crashed
        /\ items' = SubSeq(items, 1, i - 1) \o SubSeq(items, i + 1, Len(items))
        /\ lastCall' = Call("~MoveableItem", TRUE, "")
        /\ UNCHANGED << lockVars, loadVars, extVars >>
        /\ UNCHANGED << markerList, markerPositions, next_id, registeredSnaps, alive,
                        snapPoints, undoStack, undoIndex, tainted, calls, crashed >>

\* the operations that record what they do on the command stack, and the stack,
\* with the snap model of the timeline
Next ==
    \/ AddMarker
    \/ AddMarkers
    \/ RemoveMarker
    \/ EditMarker
    \/ MoveMarkers
    \/ ImportFromJson
    \/ RemoveAllMarkers
    \/ Undo
    \/ Redo
    \/ RegisterFirst

Spec == Init /\ [][Next]_vars

\* the moves that bypass the command stack, and the snap consumers
NextMove ==
    \/ AddMarker
    \/ AddMarkers
    \/ RemoveMarker
    \/ MoveMarker
    \/ MoveMarkersWithoutUndo
    \/ Undo
    \/ Redo
    \/ RegisterSnapModel
    \/ Expire

SpecMove == Init /\ [][NextMove]_vars

\* the guides of an opened document are moved, one by one or several at once
NextLoaded ==
    \/ MoveMarker
    \/ MoveMarkersWithoutUndo

SpecLoaded == InitLoaded /\ [][NextLoaded]_vars

\* every user of the id counter: items and markers
NextIds ==
    \/ NewItem
    \/ DestroyItem
    \/ AddMarker
    \/ RemoveMarker
    \/ Undo
    \/ Redo

SpecIds == Init /\ [][NextIds]_vars

\* the life of the items: built, placed, trimmed, destroyed
NextItem ==
    \/ NewItem
    \/ DestroyItem
    \/ SetPosition
    \/ SetCurrentTrackId
    \/ SetInOut

SpecItem == Init /\ [][NextItem]_vars

\* ------------------------------------------------- the lock of the list
\* The calls of the list split at the places where another thread can run:
\* taking m_lock, the write of m_markerList, the write of m_markerPositions,
\* the notification of the snap consumers, the return.

\* what the steps of a call leave alone
callVars == << alive, undoStack, undoIndex, items, lastCall, tainted, calls, loadVars, extVars >>

\* what the entry of a call leaves alone
entryVars == << markerList, markerPositions, next_id, registeredSnaps, alive, snapPoints,
               undoStack, undoIndex, items, lastCall, tainted, crashed, loadVars, extVars >>

\* a thread enters a call of the list
Enter == calls < MaxLockCalls /\ calls' = calls + 1

\* QReadWriteLock (Recursive): lockForWrite is granted to t
CanLockForWrite(t) == lockWriter \in {0, t} /\ lockReaders = {}

\* QWriteLocker locker(&m_lock)
LockForWrite(t) ==
    /\ CanLockForWrite(t)
    /\ lockWriter' = t
    /\ lockDepth' = lockDepth + 1
    /\ UNCHANGED lockReaders

\* macro READ_LOCK(): m_lock is taken for reading; when it is free (or t's
\* own) the macro may take it for writing instead
READ_LOCK(t) ==
    \/ /\ lockWriter = 0
       /\ lockReaders' = lockReaders \cup {t}
       /\ UNCHANGED << lockWriter, lockDepth >>
    \/ LockForWrite(t)

\* the locker of t goes out of scope
Unlock(t) ==
    IF lockWriter = t
    THEN /\ lockDepth' = lockDepth - 1
         /\ lockWriter' = IF lockDepth = 1 THEN 0 ELSE t
         /\ UNCHANGED lockReaders
    ELSE /\ lockReaders' = lockReaders \ {t}
         /\ UNCHANGED << lockWriter, lockDepth >>

\* thread t inside a closure: which closure, on which frame, with what
\* comment, and whether the caller of the closure holds the lock
InClosure(at, kind, f, c, mid, held) ==
    [at |-> at, kind |-> kind, pos |-> f, comment |-> c, mid |-> mid, held |-> held]

\* addMarker(pos, comment, type): QWriteLocker, then the closure local_redo()
LockedAddMarker(t) ==
    \E f \in Frames, c \in Comments :
        /\ ~crashed /\ pc[t] = Idle
        /\ LockForWrite(t)
        /\ pc' = [pc EXCEPT ![t] = InClosure("check",
                      IF hasMarker(St, GenTime(f)) THEN "chg" ELSE "add", f, c, -1, TRUE)]
        /\ Enter
    /\ UNCHANGED entryVars

\* removeMarker(pos): QWriteLocker; false without a marker, else local_redo()
LockedRemoveMarker(t) ==
    \E f \in Frames :
        /\ ~crashed /\ pc[t] = Idle
        /\ LockForWrite(t)
        /\ pc' = [pc EXCEPT ![t] =
                      IF hasMarker(St, GenTime(f))
                      THEN InClosure("check", "del", f, "", -1, TRUE)
                      ELSE InClosure("done", "none", f, "", -1, TRUE)]
        /\ Enter
    /\ UNCHANGED entryVars

\* the command stack calls the undo or redo of a command: a closure made by
\* changeComment_lambda, addMarker_lambda or deleteMarker_lambda runs with no
\* locker of its own (the QWriteLocker of the *_lambda function ended when
\* the function returned the closure)
StackCallsClosure(t) ==
    \E kind \in {"add", "del", "chg"}, f \in Frames, c \in Comments :
        /\ ~crashed /\ pc[t] = Idle
        /\ (kind = "add") = ~hasMarker(St, GenTime(f))
        /\ pc' = [pc EXCEPT ![t] = InClosure("check", kind, f, c, -1, FALSE)]
        /\ Enter
        /\ UNCHANGED << entryVars, lockWriter, lockDepth, lockReaders >>

\* Q_ASSERT(model->hasMarker(pos)) and getIdFromPos: hasMarker(int) takes
\* READ_LOCK() for the time of the query
ClosureCheck(t) ==
    /\ ~crashed /\ pc[t].at = "check"
    /\ lockWriter \in {0, t}
    /\ LET has == hasMarker(St, GenTime(pc[t].pos))
           ok == IF pc[t].kind = "add" THEN ~has ELSE has
       IN \/ /\ ~ok
             /\ crashed' = TRUE
             /\ UNCHANGED << markerList, markerPositions, next_id, registeredSnaps,
                             snapPoints, callVars, lockVars >>
          \/ /\ pc' = [pc EXCEPT ![t].at = "store",
                                 ![t].mid = getIdFromPos(St, pc[t].pos)]
             /\ UNCHANGED << markerVars, loadVars, extVars, lockWriter, lockDepth, lockReaders >>

\* the write of m_markerList: operator[] / erase / setComment
ClosureStore(t) ==
    /\ ~crashed /\ pc[t].at = "store"
    /\ LET q == pc[t]
           old == IF q.mid \in DOMAIN markerList THEN markerList[q.mid] ELSE CommentedTime0
       IN CASE q.kind = "add" ->
                  /\ next_id <= MaxId
                  /\ next_id' = next_id + 1
                  /\ markerList' = MapInsert(markerList, next_id,
                                             CommentedTime(GenTime(q.pos), q.comment, 0))
                  /\ pc' = [pc EXCEPT ![t].at = "index", ![t].mid = next_id]
            [] q.kind = "del" ->
                  /\ markerList' = MapRemove(markerList, q.mid)
                  /\ pc' = [pc EXCEPT ![t].at = "index"]
                  /\ UNCHANGED next_id
            [] q.kind = "chg" ->
                  /\ markerList' = MapInsert(markerList, q.mid,
                                             [old EXCEPT !.comment = q.comment, !.type = 0])
                  /\ pc' = [pc EXCEPT ![t].at = "done"]
                  /\ UNCHANGED next_id
    /\ UNCHANGED << markerPositions, registeredSnaps, snapPoints, callVars, crashed,
                    lockWriter, lockDepth, lockReaders >>

\* the write of m_markerPositions: insert / remove
ClosureIndex(t) ==
    /\ ~crashed /\ pc[t].at = "index"
    /\ markerPositions' = IF pc[t].kind = "add"
                          THEN MapInsert(markerPositions, pc[t].pos, pc[t].mid)
                          ELSE MapRemove(markerPositions, pc[t].pos)
    /\ pc' = [pc EXCEPT ![t].at = "snap"]
    /\ UNCHANGED << markerList, next_id, registeredSnaps, snapPoints, callVars, crashed,
                    lockWriter, lockDepth, lockReaders >>

\* model->addSnapPoint(pos) / removeSnapPoint(pos): under their own QWriteLocker
ClosureSnap(t) ==
    /\ ~crashed /\ pc[t].at = "snap"
    /\ CanLockForWrite(t)
    /\ LET st == IF pc[t].kind = "add" THEN addSnapPoint(St, GenTime(pc[t].pos))
                 ELSE removeSnapPoint(St, GenTime(pc[t].pos))
       IN /\ registeredSnaps' = st.reg
          /\ snapPoints' = st.pts
    /\ pc' = [pc EXCEPT ![t].at = "done"]
    /\ UNCHANGED << markerList, markerPositions, next_id, callVars, crashed,
                    lockWriter, lockDepth, lockReaders >>

\* registerSnapModel: READ_LOCK()
RegisterLocks(t) ==
    \E s \in alive :
        /\ ~crashed /\ pc[t] = Idle
        /\ Len(registeredSnaps) < MaxReg
        /\ READ_LOCK(t)
        /\ pc' = [pc EXCEPT ![t] = [at |-> "push_back", snapModel |-> s, held |-> TRUE]]
        /\ Enter
    /\ UNCHANGED entryVars

\* registerSnapModel: m_registeredSnaps.push_back and the seeding
RegisterPushes(t) ==
    /\ ~crashed /\ pc[t].at = "push_back"
    /\ LET st == registerSnapModel(St, pc[t].snapModel)
       IN /\ registeredSnaps' = st.reg
          /\ snapPoints' = st.pts
    /\ pc' = [pc EXCEPT ![t] = [at |-> "registered", held |-> TRUE]]
    /\ UNCHANGED << markerList, markerPositions, next_id, callVars, crashed,
                    lockWriter, lockDepth, lockReaders >>

\* a query of the list (getSnapPoints, getAllMarkers, ...): READ_LOCK()
QueryLocks(t) ==
    /\ ~crashed /\ pc[t] = Idle
    /\ READ_LOCK(t)
    /\ pc' = [pc EXCEPT ![t] = [at |-> "reading", held |-> TRUE]]
    /\ Enter
    /\ UNCHANGED entryVars

\* the call returns; its locker, if it has one, unlocks
Return(t) ==
    /\ ~crashed /\ pc[t].at \in {"done", "registered", "reading"}
    /\ IF pc[t].held THEN Unlock(t) ELSE UNCHANGED << lockWriter, lockDepth, lockReaders >>
    /\ pc' = [pc EXCEPT ![t] = Idle]
    /\ UNCHANGED << markerVars, loadVars, extVars >>

\* two threads calling the list, one of them running the command stack
NextLock ==
    \/ \E t \in Threads : LockedAddMarker(t)
    \/ \E t \in Threads : LockedRemoveMarker(t)
    \/ \E t \in Threads : StackCallsClosure(t)
    \/ \E t \in Threads : ClosureCheck(t)
    \/ \E t \in Threads : ClosureStore(t)
    \/ \E t \in Threads : ClosureIndex(t)
    \/ \E t \in Threads : ClosureSnap(t)
    \/ \E t \in Threads : RegisterLocks(t)
    \/ \E t \in Threads : RegisterPushes(t)
    \/ \E t \in Threads : QueryLocks(t)
    \/ \E t \in Threads : Return(t)

SpecLock == Init /\ [][NextLock]_vars

\* ------------------------------------------------------- ClipLoadTask
\* run() and abort() execute on a thread of the task manager; they split at
\* the places where they read m_isCanceled or isBlocked(), so that the main
\* thread can cancel, block or deliver queued calls in between.

\* the thread of the task moves on; it queues calls for the main thread
\* (QMetaObject::invokeMethod, Qt::QueuedConnection) and touches the model
\* itself (direct), all logged with the value of m_isCanceled at that moment
TaskStep(from, to, queuedCalls, directCalls) ==
    /\ taskPc = from
    /\ taskPc' = to
    /\ eventQueue' = eventQueue \o queuedCalls
    /\ taskLog' = taskLog
          \cup {[call |-> queuedCalls[i], queued |-> TRUE, canceled |-> m_isCanceled] :
                   i \in 1 .. Len(queuedCalls)}
          \cup {[call |-> c, queued |-> FALSE, canceled |-> m_isCanceled] : c \in directCalls}
    /\ UNCHANGED << m_isCanceled, m_softDelete, isBlocked, markerVars, lockVars, extVars >>

\* a step of the task that only reads
TaskGoes(from, to) ==
    /\ TaskStep(from, to, << >>, {})
    /\ UNCHANGED << task, clip, shouldCheckProfile >>

\* ClipLoadTask::start: a task is built for a clip of the bin and handed to
\* the task manager
StartTask ==
    \E thumbOnly \in BOOLEAN, outcome \in Outcomes, cached \in BOOLEAN,
       reloading \in BOOLEAN, ready \in BOOLEAN, check \in BOOLEAN :
        /\ taskPc = "none"
        /\ taskPc' = "run"
        /\ thumbOnly \/ ready = reloading
        /\ task' = [thumbOnly |-> thumbOnly, outcome |-> outcome, cached |-> cached,
                    checkProfile |-> FALSE, failed |-> FALSE]
        /\ clip' = [inBin |-> TRUE, isReloading |-> reloading,
                    statusReady |-> ready,
                    status |-> IF ready THEN "ready" ELSE "waiting",
                    valid |-> TRUE, producer |-> ready, thumbnail |-> FALSE]
        /\ shouldCheckProfile' = check
        /\ UNCHANGED << m_isCanceled, m_softDelete, isBlocked, eventQueue, taskLog,
                        markerVars, lockVars, extVars >>

\* run(): if (m_isCanceled.loadAcquire() == 1 || isBlocked()) { abort(); return; }
RunEntry ==
    TaskGoes("run", IF m_isCanceled \/ isBlocked THEN "abort"
                    ELSE IF task.thumbOnly THEN "thumb" ELSE "load")

\* run(), m_thumbOnly: the clip is looked up; ready, it gets a thumbnail
ThumbEntry ==
    TaskGoes("thumb", IF clip.inBin /\ clip.statusReady
                      THEN IF m_isCanceled \/ isBlocked THEN "abort" ELSE "gtEntry"
                      ELSE "thumbEnd")

\* generateThumbnail: the check at its entry, then video_index > -1
GtEntry ==
    TaskGoes("gtEntry", IF m_isCanceled \/ isBlocked THEN "thumbEnd"
                        ELSE IF task.outcome = "audio" THEN "thumbEnd" ELSE "gtCache")

\* generateThumbnail: a thumbnail found in the cache is queued for the clip
GtCache ==
    /\ IF task.cached
       THEN TaskStep("gtCache", "thumbEnd", << "setThumbnail" >>, {})
       ELSE TaskStep("gtCache", "gtProd", << >>, {})
    /\ UNCHANGED << task, clip, shouldCheckProfile >>

\* generateThumbnail: the check before the thumbnail producer is built
GtProd ==
    TaskGoes("gtProd", IF m_isCanceled \/ isBlocked THEN "thumbEnd" ELSE "gtFrame")

\* generateThumbnail: the frame is there; !m_isCanceled.loadAcquire()
GtFrame ==
    TaskGoes("gtFrame", IF m_isCanceled THEN "thumbEnd" ELSE "gtQueue")

\* generateThumbnail: invokeMethod(binClip, "setThumbnail", Qt::QueuedConnection)
GtQueue ==
    /\ TaskStep("gtQueue", "thumbEnd", << "setThumbnail" >>, {})
    /\ UNCHANGED << task, clip, shouldCheckProfile >>

\* run(), m_thumbOnly: the check after generateThumbnail, then return
ThumbEnd ==
    TaskGoes("thumbEnd", IF m_isCanceled \/ isBlocked THEN "abort" ELSE "finished")

\* run(): the producer is built; if (m_isCanceled.loadAcquire()) { abort(); return; }
Load ==
    TaskGoes("load", IF m_isCanceled THEN "abort"
                     ELSE IF task.outcome = "null" THEN "fail"
                     ELSE IF task.outcome = "live" THEN "live" ELSE "props")

\* run(): !producer || is_blank() || !is_valid(): message, taskDone, abort()
LoadFails ==
    /\ TaskStep("fail", "abort",
                IF clip.inBin /\ ~clip.isReloading THEN << "displayBinMessage" >> ELSE << >>,
                {})
    /\ task' = [task EXCEPT !.failed = TRUE]
    /\ UNCHANGED << clip, shouldCheckProfile >>

\* run(): length INT_MAX and eof = loop: the duration cannot be determined
LoadLive ==
    /\ TaskStep("live", "abort", << "requestTranscoding" >>,
                IF shouldCheckProfile THEN {"shouldCheckProfile"} ELSE {})
    /\ shouldCheckProfile' = FALSE
    /\ task' = [task EXCEPT !.failed = TRUE]
    /\ UNCHANGED clip

\* run(): checkProfile = shouldCheckProfile; a file that is not seekable or
\* has a variable frame rate is sent to transcoding
LoadProperties ==
    LET checkProfile == shouldCheckProfile /\ task.outcome # "audio"
        transcode == task.outcome \in {"unseekable", "vfr"}
    IN /\ TaskStep("props", "final",
                   IF transcode THEN << "requestTranscoding" >> ELSE << >>,
                   IF transcode /\ checkProfile THEN {"shouldCheckProfile"} ELSE {})
       /\ shouldCheckProfile' = IF transcode /\ checkProfile THEN FALSE
                                ELSE shouldCheckProfile
       /\ task' = [task EXCEPT !.checkProfile = checkProfile]
       /\ UNCHANGED clip

\* run(): if (!m_isCanceled.loadAcquire()) { ... } else { abort(); return; }
LoadFinal ==
    TaskGoes("final", IF m_isCanceled THEN "abort" ELSE "install")

\* run(): setProducer is queued for the clip, and the profile check for the bin
LoadInstalls ==
    LET check == task.checkProfile /\ task.outcome \notin {"unseekable", "vfr"}
    IN /\ TaskStep("install", "finished",
                   IF ~clip.inBin THEN << >>
                   ELSE IF check THEN << "setProducer", "slotCheckProfile" >>
                   ELSE << "setProducer" >>,
                   IF clip.inBin /\ check THEN {"shouldCheckProfile"} ELSE {})
       /\ shouldCheckProfile' = IF clip.inBin /\ check THEN FALSE ELSE shouldCheckProfile
       /\ UNCHANGED << task, clip >>

\* abort(): m_progress = 100; if (isBlocked()) return;
AbortEntry ==
    TaskGoes("abort", IF isBlocked THEN "finished" ELSE "abortBody")

\* an abort() that never deletes the clip
abort_neverDeletes(cl, canceled, softDelete, thumbOnly) ==
    IF ~softDelete /\ ~thumbOnly /\ cl.inBin
    THEN [clip |-> [cl EXCEPT !.status = "missing"],
          queued |-> << "setInvalid" >>, direct |-> {"setClipStatus"}]
    ELSE [clip |-> cl, queued |-> << >>, direct |-> {}]

\* an abort() that does not look at m_isCanceled
abort_ignoresCancel(cl, canceled, softDelete, thumbOnly) ==
    IF ~softDelete /\ ~thumbOnly /\ cl.inBin
    THEN IF ~cl.isReloading
         THEN [clip |-> [cl EXCEPT !.inBin = FALSE],
               queued |-> << "setInvalid" >>, direct |-> {"requestBinClipDeletion"}]
         ELSE [clip |-> [cl EXCEPT !.status = "missing"],
               queued |-> << "setInvalid" >>, direct |-> {"setClipStatus"}]
    ELSE [clip |-> cl, queued |-> << >>, direct |-> {}]

\* an abort() that does not look at m_thumbOnly
abort_ignoresThumbOnly(cl, canceled, softDelete, thumbOnly) ==
    IF ~softDelete /\ cl.inBin
    THEN IF ~canceled /\ ~cl.isReloading
         THEN [clip |-> [cl EXCEPT !.inBin = FALSE],
               queued |-> << "setInvalid" >>, direct |-> {"requestBinClipDeletion"}]
         ELSE [clip |-> [cl EXCEPT !.status = "missing"],
               queued |-> << "setInvalid" >>, direct |-> {"setClipStatus"}]
    ELSE [clip |-> cl, queued |-> << >>, direct |-> {}]

\* abort(), after the isBlocked() check: what it does to the clip
abort(cl, canceled, softDelete, thumbOnly) ==
    IF ~softDelete /\ ~thumbOnly /\ cl.inBin
    THEN IF ~canceled /\ ~cl.isReloading
         THEN [clip |-> [cl EXCEPT !.inBin = FALSE],
               queued |-> << "setInvalid" >>, direct |-> {"requestBinClipDeletion"}]
         ELSE [clip |-> [cl EXCEPT !.status = "missing"],
               queued |-> << "setInvalid" >>, direct |-> {"setClipStatus"}]
    ELSE [clip |-> cl, queued |-> << >>, direct |-> {}]

AbortBody ==
    LET a == abort(clip, m_isCanceled, m_softDelete, task.thumbOnly)
    IN /\ TaskStep("abortBody", "finished", a.queued, a.direct)
       /\ clip' = a.clip
       /\ UNCHANGED << task, shouldCheckProfile >>

\* AbstractTask::cancelJob(softDelete), called by the main thread
Cancel ==
    \E soft \in BOOLEAN :
        /\ taskPc \notin {"none", "finished"}
        /\ ~m_isCanceled
        /\ m_isCanceled' = TRUE
        /\ m_softDelete' = soft
        /\ UNCHANGED << taskPc, task, isBlocked, clip, shouldCheckProfile, eventQueue,
                        taskLog, markerVars, lockVars, extVars >>

\* the task manager is blocked (the project is closing)
Block ==
    /\ taskPc \notin {"none", "finished"}
    /\ ~isBlocked
    /\ isBlocked' = TRUE
    /\ UNCHANGED << taskPc, task, m_isCanceled, m_softDelete, clip, shouldCheckProfile,
                    eventQueue, taskLog, markerVars, lockVars, extVars >>

\* the event loop of the main thread runs the next queued call; a call queued
\* for a clip that was deleted is dropped
Deliver ==
    /\ eventQueue # << >>
    /\ eventQueue' = Tail(eventQueue)
    /\ clip' = IF ~clip.inBin THEN clip
               ELSE CASE Head(eventQueue) = "setProducer" ->
                             [clip EXCEPT !.producer = TRUE, !.status = "ready",
                                          !.statusReady = TRUE]
                      [] Head(eventQueue) = "setThumbnail" -> [clip EXCEPT !.thumbnail = TRUE]
                      [] Head(eventQueue) = "setInvalid" -> [clip EXCEPT !.valid = FALSE]
                      [] OTHER -> clip
    /\ UNCHANGED << taskPc, task, m_isCanceled, m_softDelete, isBlocked, shouldCheckProfile,
                    taskLog, markerVars, lockVars, extVars >>

NextLoad ==
    \/ StartTask
    \/ RunEntry
    \/ ThumbEntry
    \/ GtEntry
    \/ GtCache
    \/ GtProd
    \/ GtFrame
    \/ GtQueue
    \/ ThumbEnd
    \/ Load
    \/ LoadFails
    \/ LoadLive
    \/ LoadProperties
    \/ LoadFinal
    \/ LoadInstalls
    \/ AbortEntry
    \/ AbortBody
    \/ Cancel
    \/ Block
    \/ Deliver

SpecLoad == Init /\ [][NextLoad]_vars

\* ------------------------------------------- several load tasks at a time
Owners == 1 .. MaxOwners

\* a task as ClipLoadTask::start builds it; taskDone counts the emissions of
\* the signal, ready the runs of the readyCallBack connected to it
NewTask(owner, thumbOnly) ==
    [owner |-> owner, thumbOnly |-> thumbOnly, pc |-> "run", checkProfile |-> FALSE,
     canceled |-> FALSE, taskDone |-> 0, ready |-> 0]

\* TaskManager::hasPendingJob(owner, LOADJOB): a load task of the owner that
\* has not ended and is not canceled
hasPendingJob(list, owner) ==
    \E i \in 1 .. Len(list) :
        list[i].owner = owner /\ list[i].pc # "done" /\ ~list[i].canceled

\* a start() that hands every task to the task manager
ClipLoadTask_start_always(list, owner, thumbOnly) == Append(list, NewTask(owner, thumbOnly))

\* ClipLoadTask::start: the task is deleted when it is a full load and the
\* owner has a pending load job, and handed to startTask otherwise
ClipLoadTask_start(list, owner, thumbOnly) ==
    IF ~thumbOnly /\ hasPendingJob(list, owner)
    THEN list
    ELSE Append(list, NewTask(owner, thumbOnly))

PoolStep ==
    UNCHANGED << taskPc, task, m_isCanceled, m_softDelete, isBlocked, clip, eventQueue,
                 taskLog, markerVars, lockVars, docVars, trackVars, tlVars, pmVars >>

\* the main thread calls ClipLoadTask::start
ClipLoadTaskStart ==
    \E owner \in Owners, thumbOnly \in BOOLEAN :
        /\ Len(m_taskList) < MaxTasks
        /\ m_taskList' = ClipLoadTask_start(m_taskList, owner, thumbOnly)
        /\ startCall' = [owner |-> owner, thumbOnly |-> thumbOnly,
                         started |-> Len(m_taskList') > Len(m_taskList)]
        /\ UNCHANGED << shouldCheckProfile, profileChecks >>
        /\ PoolStep

\* a step of task t, on the thread of the pool that runs it
PoolTask(t, from, to, done, flag, checks) ==
    /\ t \in 1 .. Len(m_taskList)
    /\ m_taskList[t].pc \in from
    /\ m_taskList' = [m_taskList EXCEPT ![t].pc = to,
                                          ![t].taskDone = @ + (IF done THEN 1 ELSE 0)]
    /\ shouldCheckProfile' = flag
    /\ profileChecks' = profileChecks + checks
    /\ UNCHANGED startCall
    /\ PoolStep

\* run(): canceled at entry, the task aborts; a thumbnail-only task returns
\* without taskDone
PoolRun ==
    \E t \in 1 .. Len(m_taskList) :
        PoolTask(t, {"run"},
                 IF m_taskList[t].canceled \/ m_taskList[t].thumbOnly THEN "done" ELSE "load",
                 FALSE, shouldCheckProfile, 0)

\* run(): the producer is built; canceled, the task aborts; an invalid
\* producer ends it with taskDone and abort()
PoolLoadFails ==
    \E t \in 1 .. Len(m_taskList) :
        PoolTask(t, {"load"}, "done", ~m_taskList[t].canceled, shouldCheckProfile, 0)

\* run(), length INT_MAX: requestTranscoding is queued with shouldCheckProfile
\* as checkProfile, the flag is cleared, taskDone, abort()
PoolLoadLive ==
    \E t \in 1 .. Len(m_taskList) :
        /\ ~m_taskList[t].canceled
        /\ PoolTask(t, {"load"}, "done", TRUE, FALSE, IF shouldCheckProfile THEN 1 ELSE 0)

\* run(): bool checkProfile = pCore->bin()->shouldCheckProfile; without video
\* stream checkProfile = false
PoolReadsFlag ==
    \E t \in 1 .. Len(m_taskList), video \in BOOLEAN :
        /\ t \in 1 .. Len(m_taskList)
        /\ m_taskList[t].pc = "load"
        /\ ~m_taskList[t].canceled
        /\ m_taskList' = [m_taskList EXCEPT ![t].pc = "props",
                                              ![t].checkProfile = shouldCheckProfile /\ video]
        /\ UNCHANGED << shouldCheckProfile, profileChecks, startCall >>
        /\ PoolStep

\* run(): a file that is not seekable or has a variable frame rate:
\* if (checkProfile) shouldCheckProfile = false; requestTranscoding is queued
\* with checkProfile
PoolTranscodes ==
    \E t \in 1 .. Len(m_taskList) :
        PoolTask(t, {"props"}, "finalTranscoded", FALSE,
                 IF m_taskList[t].checkProfile THEN FALSE ELSE shouldCheckProfile,
                 IF m_taskList[t].checkProfile THEN 1 ELSE 0)

\* run(): a seekable file with a constant frame rate
PoolKeeps ==
    \E t \in 1 .. Len(m_taskList) :
        PoolTask(t, {"props"}, "final", FALSE, shouldCheckProfile, 0)

\* run(): if (!m_isCanceled) { setProducer; if (checkProfile && !vfr && seekable)
\* { shouldCheckProfile = false; slotCheckProfile } taskDone } else abort()
PoolFinal ==
    \E t \in 1 .. Len(m_taskList) :
        LET check == /\ ~m_taskList[t].canceled
                     /\ m_taskList[t].pc = "final"
                     /\ m_taskList[t].checkProfile
        IN PoolTask(t, {"final", "finalTranscoded"}, "done", ~m_taskList[t].canceled,
                    IF check THEN FALSE ELSE shouldCheckProfile,
                    IF check THEN 1 ELSE 0)

\* AbstractTask::cancelJob, called by the main thread
PoolCancel ==
    \E t \in 1 .. Len(m_taskList) :
        /\ m_taskList[t].pc # "done"
        /\ ~m_taskList[t].canceled
        /\ m_taskList' = [m_taskList EXCEPT ![t].canceled = TRUE]
        /\ UNCHANGED << shouldCheckProfile, profileChecks, startCall >>
        /\ PoolStep

\* the main thread runs a readyCallBack queued by the slot connected to taskDone
ReadyCallBack ==
    \E t \in 1 .. Len(m_taskList) :
        /\ m_taskList[t].ready < m_taskList[t].taskDone
        /\ m_taskList' = [m_taskList EXCEPT ![t].ready = @ + 1]
        /\ UNCHANGED << shouldCheckProfile, profileChecks, startCall >>
        /\ PoolStep

\* the bin sets shouldCheckProfile again
ArmProfileCheck ==
    /\ ~shouldCheckProfile
    /\ shouldCheckProfile' = TRUE
    /\ profileChecks' = 0
    /\ UNCHANGED << m_taskList, startCall >>
    /\ PoolStep

NextPool ==
    \/ ClipLoadTaskStart
    \/ PoolRun
    \/ PoolLoadFails
    \/ PoolLoadLive
    \/ PoolReadsFlag
    \/ PoolTranscodes
    \/ PoolKeeps
    \/ PoolFinal
    \/ PoolCancel
    \/ ReadyCallBack
    \/ ArmProfileCheck

SpecPool == Init /\ [][NextPool]_vars

\* ------------------------------------------- the document and its timelines
\* The command stack of the document is handed to the guide list of every
\* timeline (ProjectManager::openTimeline); the closures of a list find their
\* list through the uuid they captured (MarkerListModel::getModel).
Timelines == {"main", "sec"}
FileNames == {"f", "g"}
DocFrames == 0 .. 1

\* a guide list of the document with the id counter, as the value the
\* operations of the list work on (no snap consumer is registered here)
ListSt(g, id) ==
    [ml |-> g.ml, mp |-> g.mp, id |-> id, reg |-> << >>,
     pts |-> [s \in Consumers |-> EmptyMap], bad |-> FALSE]

\* std::shared_ptr<MarkerListModel> MarkerListModel::getModel(bool guide, const QString &clipId)
getModel(gs, clipId) == gs[clipId]

\* the markers (frame, comment, type) of every timeline, none for a timeline
\* that is not open
GuideViews(gs) ==
    [tl \in Timelines |->
        IF tl \in DOMAIN gs
        THEN {<< frames(gs[tl].ml[i].time), gs[tl].ml[i].comment, gs[tl].ml[i].type >> :
                 i \in DOMAIN gs[tl].ml}
        ELSE {}]

\* void ProjectManager::openTimeline(const QString &id, const QUuid &uuid): a
\* timeline without a guide list gets a new one on the document's stack
OpenTimeline ==
    \E uuid \in Timelines \ DOMAIN guides :
        /\ docCall.tag # "abort"
        /\ guides' = [tl \in DOMAIN guides \cup {uuid} |->
                         IF tl = uuid THEN EmptyGuides ELSE guides[tl]]
        /\ docCall' = Call("openTimeline", TRUE, "")
        /\ UNCHANGED << docStack, docIndex, cleanIndex, docUrl, docModified, projectPath,
                        docNextId, docPushes >>
        /\ UNCHANGED << markerVars, lockVars, loadVars, trackVars, newVars >>

\* the list of a timeline after its closures ran, or the failed Q_ASSERT
DocInstall(uuid, st, op, ret, tag) ==
    /\ docCall.tag # "abort"
    /\ st.id <= MaxId + 1
    /\ UNCHANGED << cleanIndex, docUrl, docModified, projectPath >>
    /\ UNCHANGED << markerVars, lockVars, loadVars, trackVars, newVars >>
    /\ \/ /\ st.bad
          /\ docCall' = Call(op, FALSE, "abort")
          /\ UNCHANGED << guides, docNextId >>
       \/ /\ guides' = [guides EXCEPT ![uuid] = [ml |-> st.ml, mp |-> st.mp]]
          /\ docNextId' = st.id
          /\ docCall' = Call(op, ret, tag)

\* a public call on the guide list of timeline uuid, and its PUSH_UNDO on the
\* document's stack; serial, before and after record the order of the pushes
\* and the markers of all timelines around the call (not program state)
DocApply(uuid, o, op) ==
    /\ o.push => docPushes < MaxDocPushes
    /\ DocInstall(uuid, o.st, op, o.res, uuid)
    /\ IF o.push /\ docCall'.tag # "abort"
       THEN /\ docStack' = push(docStack, docIndex,
                                [clipId |-> uuid, undo |-> o.undo, redo |-> o.redo,
                                 text |-> o.text, serial |-> docPushes + 1,
                                 before |-> GuideViews(guides),
                                 after |-> GuideViews(guides')])
            /\ docIndex' = docIndex + 1
            /\ docPushes' = docPushes + 1
       ELSE UNCHANGED << docStack, docIndex, docPushes >>

\* bool MarkerListModel::addMarker(GenTime, const QString &, int) on a timeline's list
GuideAddMarker ==
    \E uuid \in DOMAIN guides, t \in DocFrames, c \in Comments :
        DocApply(uuid, addMarker(ListSt(getModel(guides, uuid), docNextId), GenTime(t), c, 0),
                 "addMarker")

\* bool MarkerListModel::removeMarker(GenTime) on a timeline's list
GuideRemoveMarker ==
    \E uuid \in DOMAIN guides, t \in DocFrames :
        DocApply(uuid, removeMarker(ListSt(getModel(guides, uuid), docNextId), GenTime(t)),
                 "removeMarker")

\* QUndoStack::undo on the document's stack
DocUndo ==
    /\ docIndex > 0
    /\ LET cmd == docStack[docIndex]
       IN DocInstall(cmd.clipId,
                     CallFun(ListSt(getModel(guides, cmd.clipId), docNextId), cmd.undo),
                     "undo", TRUE, cmd.clipId)
    /\ docIndex' = IF docCall'.tag = "abort" THEN docIndex ELSE docIndex - 1
    /\ UNCHANGED << docStack, docPushes >>

\* QUndoStack::redo on the document's stack
DocRedo ==
    /\ docIndex < Len(docStack)
    /\ LET cmd == docStack[docIndex + 1]
       IN DocInstall(cmd.clipId,
                     CallFun(ListSt(getModel(guides, cmd.clipId), docNextId), cmd.redo),
                     "redo", TRUE, cmd.clipId)
    /\ docIndex' = IF docCall'.tag = "abort" THEN docIndex ELSE docIndex + 1
    /\ UNCHANGED << docStack, docPushes >>

\* the document as saveFileAs sees it
Doc == [url |-> docUrl, modified |-> docModified, clean |-> cleanIndex, path |-> projectPath]

\* a saveFileAs that treats a copy like a save
saveFileAs_copyIsSave(doc, index, outputFileName, saveACopy, written) ==
    LET d1 == IF outputFileName # doc.url
              THEN [doc EXCEPT !.path = outputFileName] ELSE doc
    IN IF ~written THEN [doc |-> d1, ret |-> FALSE]
       ELSE [doc |-> [d1 EXCEPT !.url = outputFileName, !.modified = FALSE, !.clean = index],
             ret |-> TRUE]

\* bool ProjectManager::saveFileAs(const QString &outputFileName, bool saveACopy)
\* (written: m_project->saveSceneList succeeded; index: the stack's position).
\* The monitors, the thumbnail cache, the recent files and the move of the
\* temporary folder are outside the document and left out.
saveFileAs(doc, index, outputFileName, saveACopy, written) ==
    LET d1 == IF ~saveACopy /\ outputFileName # doc.url
              THEN [doc EXCEPT !.path = outputFileName] ELSE doc
    IN IF ~written THEN [doc |-> d1, ret |-> FALSE]
       ELSE IF ~saveACopy
       THEN [doc |-> [d1 EXCEPT !.url = outputFileName, !.modified = FALSE, !.clean = index],
             ret |-> TRUE]
       ELSE [doc |-> d1, ret |-> TRUE]

SaveFileAsCall(outputFileName, saveACopy, written) ==
    LET r == saveFileAs(Doc, docIndex, outputFileName, saveACopy, written)
    IN /\ docCall.tag # "abort"
       /\ docUrl' = r.doc.url
       /\ docModified' = r.doc.modified
       /\ cleanIndex' = r.doc.clean
       /\ projectPath' = r.doc.path
       /\ docCall' = Call("saveFileAs", r.ret,
                          IF ~written THEN "failed" ELSE IF saveACopy THEN "copy" ELSE "saved")
       /\ UNCHANGED << guides, docStack, docIndex, docNextId, docPushes >>
       /\ UNCHANGED << markerVars, lockVars, loadVars, trackVars, newVars >>

SaveFileAs ==
    \E outputFileName \in FileNames, saveACopy \in BOOLEAN, written \in BOOLEAN :
        SaveFileAsCall(outputFileName, saveACopy, written)

\* ProjectManager::doOpenFile with a stale autosave file, at the start of the
\* session: the document keeps no name when the autosave was one of an
\* untitled project or could not be loaded, and is modified when it was loaded
OpenStale ==
    \E url \in FileNames, untitled \in BOOLEAN, loadingFailed \in BOOLEAN :
        /\ docCall.op = "init"
        /\ docUrl' = IF untitled \/ loadingFailed THEN "" ELSE url
        /\ docModified' = ~loadingFailed
        /\ docCall' = Call("doOpenFile", TRUE, "stale")
        /\ UNCHANGED << guides, docStack, docIndex, cleanIndex, projectPath, docNextId,
                        docPushes >>
        /\ UNCHANGED << markerVars, lockVars, loadVars, trackVars, newVars >>

\* the timelines of a document and the stack they share
NextShared ==
    \/ OpenTimeline
    \/ GuideAddMarker
    \/ GuideRemoveMarker
    \/ DocUndo
    \/ DocRedo

SpecShared == Init /\ [][NextShared]_vars

\* a document that is edited, undone and saved
NextSave ==
    \/ OpenStale
    \/ GuideAddMarker
    \/ GuideRemoveMarker
    \/ DocUndo
    \/ DocRedo
    \/ SaveFileAs

SpecSave == Init /\ [][NextSave]_vars

\* ------------------------------------------------------------------ track
\* One track: its items [id, position, duration] in position order. An item
\* covers the frames position .. position + duration - 1.
TrackIds == 1 .. MaxTrackItems
Positions == 0 .. MaxPos
Durations == 1 .. MaxDur

\* an overlap test that also counts two ranges that touch
Overlap_touching(p, d, q, e) == p <= q + e /\ q <= p + d

\* the ranges [p, p + d) and [q, q + e) share a frame
Overlap(p, d, q, e) == p < q + e /\ q < p + d

\* the items in position order, with a new one threaded in
RECURSIVE Thread(_, _)
Thread(its, item) ==
    IF its = << >> THEN << item >>
    ELSE IF item.position < Head(its).position THEN << item >> \o its
    ELSE << Head(its) >> \o Thread(Tail(its), item)

\* insert(item, desiredPosition) -> bool
trackInsert(its, id, duration, desiredPosition) ==
    IF \E k \in 1 .. Len(its) :
           Overlap(desiredPosition, duration, its[k].position, its[k].duration)
    THEN [items |-> its, res |-> FALSE]
    ELSE [items |-> Thread(its, [id |-> id, position |-> desiredPosition,
                                 duration |-> duration]),
          res |-> TRUE]

\* remove(itemId) -> bool
trackRemove(its, itemId) ==
    IF \A k \in 1 .. Len(its) : its[k].id # itemId THEN [items |-> its, res |-> FALSE]
    ELSE [items |-> SelectSeq(its, LAMBDA it : it.id # itemId), res |-> TRUE]

\* move(itemId, newPosition) -> bool: a remove and an insert, or nothing
trackMove(its, itemId, newPosition) ==
    LET r == trackRemove(its, itemId)
    IN IF ~r.res THEN [items |-> its, res |-> FALSE]
       ELSE LET k == CHOOSE k \in 1 .. Len(its) : its[k].id = itemId
                i == trackInsert(r.items, itemId, its[k].duration, newPosition)
            IN IF i.res THEN i ELSE [items |-> its, res |-> FALSE]

TrackRequest(r, op, tag) ==
    /\ trackItems' = r.items
    /\ trackCall' = Call(op, r.res, tag)
    /\ UNCHANGED << markerVars, lockVars, loadVars, docVars, newVars >>

\* a request to place an item that is on no track
TrackInsertCall(id, duration, pos) ==
    /\ \A k \in 1 .. Len(trackItems) : trackItems[k].id # id
    /\ TrackRequest(trackInsert(trackItems, id, duration, pos), "insert",
                    IF \E k \in 1 .. Len(trackItems) :
                           trackItems[k].position + trackItems[k].duration = pos
                    THEN "adjacent" ELSE "apart")

TrackInsert ==
    \E id \in TrackIds, duration \in Durations, pos \in Positions :
        TrackInsertCall(id, duration, pos)

TrackRemove ==
    \E id \in TrackIds : TrackRequest(trackRemove(trackItems, id), "remove", "")

TrackMoveCall(id, pos) == TrackRequest(trackMove(trackItems, id, pos), "move", "")

TrackMove == \E id \in TrackIds, pos \in Positions : TrackMoveCall(id, pos)

NextTrack ==
    \/ TrackInsert
    \/ TrackRemove
    \/ TrackMove

SpecTrack == Init /\ [][NextTrack]_vars

\* --------------------------------------------------------- timeline model
\* The tracks of a timeline and the groups of its items.
TlTrackIds == 1 .. 2
TlPositions == 0 .. MaxTlPos

\* the ids of the items on the tracks
TlItems(tracks) ==
    UNION {{tracks[tr][k].id : k \in 1 .. Len(tracks[tr])} : tr \in TlTrackIds}

\* where an item is: its track, position and duration
Place(tracks, id) ==
    LET tr == CHOOSE tr \in TlTrackIds : \E k \in 1 .. Len(tracks[tr]) : tracks[tr][k].id = id
        k == CHOOSE k \in 1 .. Len(tracks[tr]) : tracks[tr][k].id = id
    IN [track |-> tr, position |-> tracks[tr][k].position, duration |-> tracks[tr][k].duration]

\* the rigid unit an item moves with: its group, or the item alone
Members(groups, id) == IF \E g \in groups : id \in g THEN CHOOSE g \in groups : id \in g ELSE {id}

\* every member is taken off its track
RECURSIVE liftMembers(_, _)
liftMembers(tracks, ids) ==
    IF ids = << >> THEN tracks
    ELSE LET tr == Place(tracks, Head(ids)).track
         IN liftMembers([tracks EXCEPT ![tr] = trackRemove(@, Head(ids)).items], Tail(ids))

\* every member is inserted at its place shifted by the delta, until one does
\* not fit; from is the timeline before the move
RECURSIVE placeMembers(_, _, _, _, _)
placeMembers(from, tracks, ids, dTrack, dPos) ==
    IF ids = << >> THEN [tracks |-> tracks, res |-> TRUE]
    ELSE LET at == Place(from, Head(ids))
             tr == at.track + dTrack
             pos == at.position + dPos
         IN IF tr \notin TlTrackIds \/ pos < 0 THEN [tracks |-> tracks, res |-> FALSE]
            ELSE LET i == trackInsert(tracks[tr], Head(ids), at.duration, pos)
                 IN IF ~i.res THEN [tracks |-> tracks, res |-> FALSE]
                    ELSE placeMembers(from, [tracks EXCEPT ![tr] = i.items], Tail(ids),
                                      dTrack, dPos)

\* a group move that keeps what it had done when a member did not fit
requestItemMove_noRollback(tracks, groups, itemId, targetTrackId, targetPosition) ==
    LET at == Place(tracks, itemId)
        ids == SortedSeq(Members(groups, itemId))
    IN placeMembers(tracks, liftMembers(tracks, ids), ids,
                    targetTrackId - at.track, targetPosition - at.position)

\* requestItemMove(itemId, targetTrackId, targetPosition) -> bool
requestItemMove(tracks, groups, itemId, targetTrackId, targetPosition) ==
    LET at == Place(tracks, itemId)
        ids == SortedSeq(Members(groups, itemId))
        r == placeMembers(tracks, liftMembers(tracks, ids), ids,
                          targetTrackId - at.track, targetPosition - at.position)
    IN IF r.res THEN r ELSE [tracks |-> tracks, res |-> FALSE]

TlRequest(tracks, groups, op, ret, tag) ==
    /\ tlTracks' = tracks
    /\ tlGroups' = groups
    /\ tlCall' = Call(op, ret, tag)
    /\ UNCHANGED << markerVars, lockVars, loadVars, docVars, trackVars, pmVars, poolVars >>

\* an item that is not on the timeline is inserted on a track
TlInsert ==
    \E id \in TrackIds \ TlItems(tlTracks), tr \in TlTrackIds, duration \in Durations,
       pos \in TlPositions :
        LET i == trackInsert(tlTracks[tr], id, duration, pos)
        IN TlRequest([tlTracks EXCEPT ![tr] = i.items], tlGroups, "requestItemInsert",
                     i.res, "")

\* requestGroupCreate(itemIds): items of the timeline that are in no group
TlGroupCreate ==
    \E ids \in SUBSET TlItems(tlTracks) :
        /\ Cardinality(ids) >= 2
        /\ \A g \in tlGroups : g \cap ids = {}
        /\ TlRequest(tlTracks, tlGroups \cup {ids}, "requestGroupCreate", TRUE, "")

\* requestGroupDissolve(groupId)
TlGroupDissolve ==
    \E g \in tlGroups : TlRequest(tlTracks, tlGroups \ {g}, "requestGroupDissolve", TRUE, "")

TlMoveCall(id, tr, pos) ==
    LET r == requestItemMove(tlTracks, tlGroups, id, tr, pos)
        alone == requestItemMove(tlTracks, {}, id, tr, pos)
    IN TlRequest(r.tracks, tlGroups, "requestItemMove", r.res,
                 IF Members(tlGroups, id) = {id} THEN "single"
                 ELSE IF r.res THEN "group"
                 ELSE IF alone.res THEN "member collides" ELSE "collides")

\* the targets keep every member on the positions of the model
TlMove ==
    \E id \in TlItems(tlTracks), tr \in TlTrackIds, pos \in TlPositions :
        /\ \A x \in Members(tlGroups, id) :
              Place(tlTracks, x).position + pos - Place(tlTracks, id).position <= MaxTlPos
        /\ TlMoveCall(id, tr, pos)

NextTimeline ==
    \/ TlInsert
    \/ TlGroupCreate
    \/ TlGroupDissolve
    \/ TlMove

SpecTimeline == Init /\ [][NextTimeline]_vars

\* -------------------------------------------------------- project manager
\* ProjectManager: the document it holds, how it is closed, opened, saved and
\* autosaved. A document is [open, url, modified, autosave]: autosave is the
\* content of its KAutoSaveFile, << >> when empty.
\* The manager as one value.
Pm == [project |-> m_project, timelines |-> m_timelineModels, prepared |-> preparedClose,
       main |-> m_mainTimelineModel, timer |-> m_autoSaveTimer, lastSave |-> m_lastSave,
       entries |-> << >>, bad |-> FALSE]

\* what the dialogs, the disk and the session answer during one call:
\* answer: the save-changes question; written: saveSceneList succeeded;
\* picked: the file chosen in the save dialog, "" when cancelled;
\* savingSession: qApp->isSavingSession(); recover: an orphaned autosave file
\* exists and the user asks to recover it; opened: KdenliveDoc::Open succeeded;
\* tracks: the opened project has tracks
Env(answer, save, savingSession, recover, open) ==
    [answer |-> answer, written |-> save # "fails",
     picked |-> IF save = "cancel" THEN "" ELSE "g",
     savingSession |-> savingSession, recover |-> recover,
     opened |-> open # "fails", tracks |-> open = "ok"]

Answers == {"yes", "no", "cancel"}
Saves == {"fails", "cancel", "ok"}
Opens == {"fails", "no tracks", "ok"}

\* the answers a call can meet: when it closes the document, when it saves,
\* when it opens a file
Envs ==
    {Env(a, s, ss, r, o) : a \in Answers, s \in Saves, ss \in BOOLEAN, r \in BOOLEAN,
                           o \in Opens}
CloseEnvs == {Env(a, s, ss, FALSE, "ok") : a \in Answers, s \in Saves, ss \in BOOLEAN}
SaveEnvs == {Env("no", s, FALSE, FALSE, "ok") : s \in Saves}
ReopenEnvs == {Env("no", "ok", ss, FALSE, o) : ss \in BOOLEAN, o \in Opens}

\* QUuid of the document read from a file, or of a new document
Uuid(url) == IF url = "" THEN "new" ELSE url

\* bool ProjectManager::saveFile(), with saveFileAs(bool) for a document
\* without url
saveFile(pm, env) ==
    IF ~pm.project.open THEN [pm |-> pm, res |-> FALSE]
    ELSE LET out == IF pm.project.url = "" THEN env.picked ELSE pm.project.url
         IN IF out = "" THEN [pm |-> pm, res |-> FALSE]
            ELSE LET r == saveFileAs([url |-> pm.project.url, modified |-> pm.project.modified,
                                      clean |-> 0, path |-> ""], 0, out, FALSE, env.written)
                 IN [pm |-> [pm EXCEPT !.project.url = r.doc.url,
                                       !.project.modified = r.doc.modified,
                                       !.project.autosave =
                                           IF pm.project.url # "" THEN << >> ELSE @],
                     res |-> r.ret]

\* bool ProjectManager::closeCurrentDocument(bool saveChanges, bool quit)
closeCurrentDocument(pm, saveChanges, quit, env) ==
    LET p1 == [pm EXCEPT !.timer = FALSE]
        asks == p1.project.open /\ p1.project.modified /\ saveChanges
        s == saveFile(p1, env)
        p2 == IF asks /\ env.answer = "yes" THEN s.pm ELSE p1
    IN IF asks /\ env.answer = "yes" /\ ~s.res THEN [pm |-> s.pm, res |-> FALSE]
       ELSE IF asks /\ env.answer = "cancel" THEN [pm |-> p1, res |-> FALSE]
       ELSE LET p3 == IF p2.project.open THEN [p2 EXCEPT !.prepared = p2.timelines] ELSE p2
                p4 == IF ~quit /\ ~env.savingSession /\ p3.project.open
                      THEN [p3 EXCEPT !.project = NoProject] ELSE p3
            IN [pm |-> [p4 EXCEPT !.main = ""], res |-> TRUE]

\* bool ProjectManager::updateTimeline(...), void ProjectManager::activateDocument(uuid):
\* the timeline model of the document is built, kept and made the main one
updateTimeline(pm) ==
    LET uuid == Uuid(pm.project.url)
    IN [pm EXCEPT !.timelines = @ \cup {uuid}, !.main = uuid]

RECURSIVE newFile(_, _, _)
RECURSIVE doOpenFile(_, _, _, _, _, _)

\* bool ProjectManager::checkForBackupFile(const QUrl &url, bool newFile)
checkForBackupFile(pm, url, env, fuel) ==
    IF env.recover /\ fuel > 0
    THEN [pm |-> doOpenFile(pm, url, TRUE, FALSE, env, fuel - 1), res |-> TRUE]
    ELSE [pm |-> pm, res |-> FALSE]

\* void ProjectManager::doOpenFile(const QUrl &url, KAutoSaveFile *stale, bool isBackup);
\* url "" is the url of an untitled project. A file that cannot be opened is
\* neither recovered nor replaced by a backup here.
doOpenFile(pm, url, stale, isBackup, env, fuel) ==
    LET p1 == [pm EXCEPT !.entries = Append(@, pm.project.open),
                         !.bad = @ \/ pm.project.open]
    IN IF ~env.opened THEN newFile(p1, env, fuel)
       ELSE LET doc == [open |-> TRUE, url |-> url, modified |-> stale, autosave |-> << >>]
                p2 == [p1 EXCEPT !.project = doc]
            IN IF ~env.tracks THEN p2
               ELSE [updateTimeline(p2) EXCEPT !.lastSave = "started"]

\* void ProjectManager::newFile(QString profileName, bool showProjectSettings),
\* without the project settings dialog
newFile(pm, env, fuel) ==
    LET b == checkForBackupFile(pm, "", env, fuel)
        c == closeCurrentDocument(pm, TRUE, FALSE, env)
    IN IF b.res THEN b.pm
       ELSE IF ~c.res THEN c.pm
       ELSE [updateTimeline([c.pm EXCEPT !.project = [open |-> TRUE, url |-> "",
                                                       modified |-> FALSE,
                                                       autosave |-> << >>]])
                EXCEPT !.lastSave = "started"]

\* void ProjectManager::openFile(const QUrl &url)
openFile(pm, url, env) ==
    IF pm.project.open /\ pm.project.url = url THEN pm
    ELSE LET c == closeCurrentDocument(pm, TRUE, FALSE, env)
             b == checkForBackupFile(c.pm, url, env, MaxRecover)
         IN IF ~c.res THEN c.pm
            ELSE IF b.res THEN b.pm
            ELSE doOpenFile(c.pm, url, FALSE, FALSE, env, MaxRecover)

\* void ProjectManager::slotRevert(), the user confirming
slotRevert(pm, env) ==
    LET c == closeCurrentDocument(pm, FALSE, FALSE, env)
    IN IF c.res THEN doOpenFile(c.pm, pm.project.url, FALSE, FALSE, env, MaxRecover) ELSE c.pm

\* bool ProjectManager::slotOpenBackup(const QUrl &url), called from the menu
\* (url invalid), the user picking a backup of the project
slotOpenBackup(pm, env) ==
    LET c == closeCurrentDocument(pm, FALSE, FALSE, env)
        o == doOpenFile(c.pm, pm.project.url, FALSE, TRUE, env, MaxRecover)
    IN IF o.project.open /\ o.project.url # ""
       THEN [o EXCEPT !.project.modified = TRUE] ELSE o

\* QString::replace for every entry of m_replacementPattern
replaceAll(scene, pattern) ==
    [i \in DOMAIN scene |-> IF scene[i] \in DOMAIN pattern THEN pattern[scene[i]] ELSE scene[i]]

\* QString::contains
contains(scene, part) == \E i \in DOMAIN scene : scene[i] = part

\* an autosave that writes whatever the scene list is
slotAutoSave_savesAnything(pm, scene, pattern) ==
    [pm EXCEPT !.project.autosave = replaceAll(scene, pattern), !.lastSave = "started"]

\* void ProjectManager::slotAutoSave(); scene is what projectSceneList returns
slotAutoSave(pm, scene, pattern) ==
    LET sc == replaceAll(scene, pattern)
    IN IF ~contains(sc, "<track ") THEN pm
       ELSE [pm EXCEPT !.project.autosave = sc, !.lastSave = "started"]

\* void ProjectManager::slotStartAutoSave()
slotStartAutoSave(pm, scene, pattern) ==
    IF pm.lastSave = "long" THEN slotAutoSave([pm EXCEPT !.timer = FALSE], scene, pattern)
    ELSE [pm EXCEPT !.timer = TRUE]

\* the scene lists projectSceneList may return, and m_replacementPattern
Scenes == {<< "<playlist " >>, << "<track ", "tmp/proxy/" >>, << "<track ", "<track " >>}
Patterns == {EmptyMap, [x \in {"tmp/proxy/"} |-> "new/proxy/"]}

\* the manager after a call; a call in which the Q_ASSERT of doOpenFile failed
\* either aborts the process (debug build) or goes on (release build)
PmInstall(pm, op, ret, tag) ==
    /\ pmCall.tag # "abort"
    /\ UNCHANGED << markerVars, lockVars, loadVars, docVars, trackVars, tlVars, poolVars >>
    /\ \/ /\ pm.bad
          /\ pmCall' = Call(op, FALSE, "abort")
          /\ openEntries' = pm.entries
          /\ UNCHANGED << m_project, m_timelineModels, preparedClose, m_mainTimelineModel,
                          m_autoSaveTimer, m_lastSave >>
       \/ /\ m_project' = pm.project
          /\ m_timelineModels' = pm.timelines
          /\ preparedClose' = pm.prepared
          /\ m_mainTimelineModel' = pm.main
          /\ m_autoSaveTimer' = pm.timer
          /\ m_lastSave' = pm.lastSave
          /\ openEntries' = pm.entries
          /\ pmCall' = Call(op, ret, tag)

NewFileCall(env) ==
    PmInstall(newFile(Pm, env, MaxRecover), "newFile", TRUE,
              IF env.recover THEN "recover" ELSE "new")

NewFile == \E env \in Envs : NewFileCall(env)

OpenFile ==
    \E env \in Envs, url \in FileNames :
        PmInstall(openFile(Pm, url, env), "openFile", TRUE, "")

\* the revert action is enabled once a file was opened
SlotRevert ==
    \E env \in ReopenEnvs :
        m_project.open /\ PmInstall(slotRevert(Pm, env), "slotRevert", TRUE, "")

SlotOpenBackup ==
    \E env \in ReopenEnvs :
        /\ m_project.open /\ m_project.url # ""
        /\ PmInstall(slotOpenBackup(Pm, env), "slotOpenBackup", TRUE, "")

SaveFileCall(env) ==
    LET r == saveFile(Pm, env)
    IN PmInstall(r.pm, "saveFile", r.res,
                 IF ~m_project.open THEN "no project"
                 ELSE IF m_project.url = "" THEN "dialog" ELSE "url")

SaveFile == \E env \in SaveEnvs : SaveFileCall(env)

CloseCurrentDocumentCall(saveChanges, quit, env) ==
    LET r == closeCurrentDocument(Pm, saveChanges, quit, env)
    IN PmInstall(r.pm, "closeCurrentDocument", r.res,
                 IF r.res THEN "closed"
                 ELSE IF env.answer = "cancel" THEN "cancelled" ELSE "save failed")

\* the window is closed (quit), or the session manager asks to close
CloseCurrentDocument ==
    \E saveChanges \in BOOLEAN, quit \in BOOLEAN, env \in CloseEnvs :
        CloseCurrentDocumentCall(saveChanges, quit, env)

\* an edit: KdenliveDoc::setModified(true)
Modify ==
    /\ m_project.open
    /\ PmInstall([Pm EXCEPT !.project.modified = TRUE], "setModified", TRUE, "")

SlotStartAutoSaveCall(scene, pattern) ==
    PmInstall(slotStartAutoSave(Pm, scene, pattern), "slotStartAutoSave", TRUE,
              IF m_lastSave # "long" THEN "timer"
              ELSE IF contains(replaceAll(scene, pattern), "<track ") THEN "saved"
              ELSE "corrupted")

\* the document asks for an autosave
SlotStartAutoSave ==
    \E scene \in Scenes, pattern \in Patterns :
        m_project.open /\ SlotStartAutoSaveCall(scene, pattern)

SlotAutoSaveCall(scene, pattern) ==
    PmInstall(slotAutoSave([Pm EXCEPT !.timer = FALSE], scene, pattern), "slotAutoSave", TRUE,
              IF contains(replaceAll(scene, pattern), "<track ") THEN "saved"
              ELSE "corrupted")

\* the single-shot timer fires
SlotAutoSave ==
    \E scene \in Scenes, pattern \in Patterns :
        m_autoSaveTimer /\ m_project.open /\ SlotAutoSaveCall(scene, pattern)

\* five minutes pass without a save
Elapse ==
    /\ m_lastSave = "started"
    /\ PmInstall([Pm EXCEPT !.lastSave = "long"], "elapse", TRUE, "")

NextProject ==
    \/ NewFile
    \/ OpenFile
    \/ SlotRevert
    \/ SlotOpenBackup
    \/ SaveFile
    \/ CloseCurrentDocument
    \/ Modify
    \/ SlotStartAutoSave
    \/ SlotAutoSave
    \/ Elapse

SpecProject == Init /\ [][NextProject]_vars

\* ------------------------------------------------------------ properties
\* the markers of a list as (frame, comment, type), whatever their ids
View(ml) == {<< frames(ml[i].time), ml[i].comment, ml[i].type >> : i \in DOMAIN ml}

\* the frames that carry a marker of a list
MarkerFrames(ml) == {frames(ml[i].time) : i \in DOMAIN ml}

\* the ids of the markers stored at a frame
MarkersAt(ml, f) == {i \in DOMAIN ml : frames(ml[i].time) = f}

\* the list recorded for the current position of the command stack
Expected ==
    IF undoIndex > 0 THEN undoStack[undoIndex].after
    ELSE IF Len(undoStack) > 0 THEN undoStack[1].before
    ELSE markerList

\* the consumers the list notifies
LiveRegistered == {s \in alive : Occurrences(registeredSnaps, s) > 0}

\* C1: no two markers stored in the list have the same frame position.
MarkerUniqueness ==
    \A a, b \in DOMAIN markerList :
        a # b => frames(markerList[a].time) # frames(markerList[b].time)

\* C2: the frame-to-id index and the id-to-marker storage agree: the index maps
\* frame f to id i if and only if the storage holds marker i with time f.
IndexAgreesWithStorage ==
    /\ \A f \in DOMAIN markerPositions :
          /\ markerPositions[f] \in DOMAIN markerList
          /\ frames(markerList[markerPositions[f]].time) = f
    /\ \A i \in DOMAIN markerList :
          /\ frames(markerList[i].time) \in DOMAIN markerPositions
          /\ markerPositions[frames(markerList[i].time)] = i

UndoRedoRestores ==
    ~tainted =>
        /\ View(markerList) = View(Expected)
        /\ Cardinality(DOMAIN markerList) = Cardinality(DOMAIN Expected)
        /\ \A s \in LiveRegistered : DOMAIN snapPoints[s] = MarkerFrames(Expected)
        /\ \A k \in 1 .. Len(undoStack) - 1 :
               View(undoStack[k].after) = View(undoStack[k + 1].before)

\* C4 happens: two commands were undone and redone with a consumer listening
TwoCommandsRedone ==
    /\ ~tainted /\ ~crashed
    /\ lastCall.op = "redo"
    /\ undoIndex = 2
    /\ LiveRegistered # {}
    /\ View(undoStack[1].before) # View(undoStack[1].after)
    /\ View(undoStack[2].before) # View(undoStack[2].after)

\* C5: editMarker onto a frame that carries another marker fails and leaves
\* both markers as they were.
EditOntoMarkerFails ==
    [][(lastCall'.op = "editMarker" /\ lastCall'.tag = "collision") =>
          /\ lastCall'.ret = FALSE
          /\ markerList' = markerList
          /\ markerPositions' = markerPositions
      ]_vars

\* a record of the array whose frame carries a marker with another comment or type
HasConflict(data) ==
    /\ data.isArray
    /\ \E i \in 1 .. Len(data.list) :
          LET e == data.list[i]
              type == IF e.type < 0 \/ e.type >= MarkerTypesSize THEN 0 ELSE e.type
          IN /\ e.isObject /\ e.hasPos
             /\ \E m \in MarkersAt(markerList, e.pos) :
                   markerList[m].comment # e.comment \/ markerList[m].type # type

FailedCallPushesNothing ==
    [][(lastCall'.op \in {"removeMarker", "addMarker", "editMarker", "importFromJson",
                          "removeAllMarkers"}
          /\ ~crashed' /\ lastCall'.ret = FALSE) =>
             undoStack' = undoStack /\ undoIndex' = undoIndex
      ]_vars

\* C8: every live registered snap consumer holds exactly the frames that carry
\* a marker.
SnapsMatchMarkers ==
    \A s \in LiveRegistered : DOMAIN snapPoints[s] = MarkerFrames(markerList)

\* C9: after an undo or a redo, every marker recorded for the stack position
\* is in the list under the id it had.
RestoredMarkerKeepsId ==
    (~tainted /\ ~crashed /\ lastCall.op \in {"undo", "redo"}) =>
        \A i \in DOMAIN Expected :
            i \in DOMAIN markerList /\ markerList[i].time = Expected[i].time

\* C10: no id is held by two entities (items, markers).
EntityIdsUnique ==
    /\ \A i, j \in 1 .. Len(items) : i # j => items[i].id # items[j].id
    /\ \A i \in 1 .. Len(items) : items[i].id \notin DOMAIN markerList

\* C11: a thread that has written the marker storage, the index or the list
\* of snap consumers inside a call holds the write lock of the list, and a
\* thread that holds the lock for a query sees index and storage in agreement.
WritesHoldWriteLock ==
    /\ \A t \in Threads :
          pc[t].at \in {"index", "snap", "registered"} => lockWriter = t
    /\ \A t \in Threads :
          (pc[t].at = "done" /\ pc[t].kind # "none") => lockWriter = t
    /\ \A t \in Threads : pc[t].at = "reading" => IndexAgreesWithStorage

\* the calls queued for the main thread and not yet delivered
Pending == {eventQueue[i] : i \in 1 .. Len(eventQueue)}

\* C12: while m_isCanceled is set the task queues neither setProducer nor
\* setThumbnail and requests no profile check.
NoResultAfterCancel ==
    \A e \in taskLog :
        (e.queued /\ e.call \in {"setProducer", "setThumbnail", "slotCheckProfile"})
            => ~e.canceled

\* C13: everything the thread of the task does to the bin or the clip is a
\* queued call.
TaskOnlyQueues == \A e \in taskLog : e.queued

\* what C14 says of a clip whose load failed
DeletedIffInitialLoad ==
    /\ clip.inBin = clip.isReloading
    /\ clip.isReloading =>
          /\ clip.status = "missing"
          /\ clip.valid = FALSE \/ "setInvalid" \in Pending

\* C14: after a full load that failed without being canceled, the clip is
\* deleted if and only if it was not reloading; a reloading clip is kept and
\* marked invalid and missing.
FailedLoadDeletesIffInitial ==
    (taskPc = "finished" /\ task.failed /\ ~task.thumbOnly /\ ~m_isCanceled)
        => DeletedIffInitialLoad

\* C14, with the task manager not blocked while the task runs: after a full
\* load that failed without being canceled, the clip is deleted if and only if
\* it was not reloading; a reloading clip is kept and marked invalid and missing.
FailedLoadDeletesIffInitialUnblocked ==
    (taskPc = "finished" /\ task.failed /\ ~task.thumbOnly /\ ~m_isCanceled /\ ~isBlocked)
        => DeletedIffInitialLoad

\* C14 happens: the initial load of a clip failed and the clip is gone
InitialLoadFailedAndDeleted ==
    /\ taskPc = "finished" /\ task.failed /\ ~task.thumbOnly
    /\ ~m_isCanceled /\ ~isBlocked
    /\ ~clip.isReloading /\ ~clip.inBin

\* C15: abort() of a full load with m_isCanceled set, not soft-deleted and
\* past the isBlocked() check, keeps the clip in the bin, sets its status to
\* missing and queues setInvalid for it.
CanceledAbortKeepsClip ==
    [][(taskPc = "abortBody" /\ taskPc' = "finished"
          /\ m_isCanceled /\ ~m_softDelete /\ ~task.thumbOnly /\ clip.inBin) =>
             /\ clip'.inBin
             /\ clip'.status = "missing"
             /\ eventQueue' = Append(eventQueue, "setInvalid")
      ]_vars

\* C15 happens: the canceled initial load of a clip ended with the clip kept,
\* missing and invalid
CanceledLoadMarkedMissing ==
    /\ taskPc = "finished" /\ ~task.thumbOnly
    /\ m_isCanceled /\ ~m_softDelete
    /\ ~clip.isReloading /\ clip.inBin
    /\ clip.status = "missing" /\ ~clip.valid

\* the lists of one or two different markers of the list, in any order
StoredMarkerLists ==
    {ms \in MarkerLists :
        /\ \A i \in 1 .. Len(ms) : \E mid \in DOMAIN markerList : markerList[mid] = ms[i]
        /\ \A i, j \in 1 .. Len(ms) : i # j => ms[i] # ms[j]}

\* C16: when moveMarkers returns true, the list holds for each input marker a
\* marker at its time + delta with its comment and type, and the number of
\* markers is as before.
MoveMarkersShiftsEach ==
    [][\A ms \in StoredMarkerLists, delta \in (-MaxFrame .. MaxFrame) \ {0} :
          (lastCall'.op = "moveMarkers" /\ lastCall'.ret /\ ~crashed'
             /\ MoveMarkersCall(ms, delta)) =>
              /\ \A i \in 1 .. Len(ms) :
                     << frames(ms[i].time) + delta, ms[i].comment, ms[i].type >>
                         \in View(markerList')
              /\ Cardinality(DOMAIN markerList') = Cardinality(DOMAIN markerList)
      ]_vars

\* C17: when moveMarkers returns false, the markers of the list (frame,
\* comment, type) are those it had before the call.
FailedMoveMarkersRestores ==
    [][(lastCall'.op = "moveMarkers" /\ ~lastCall'.ret /\ ~crashed'
          /\ lastCall'.tag = "failed" /\ calls' = calls + 1) =>
             /\ View(markerList') = View(markerList)
             /\ DOMAIN markerPositions' = DOMAIN markerPositions
      ]_vars

EditSameIsNoOp ==
    [][\A old \in DOMAIN markerPositions, c \in Comments \cup {""}, ty \in Types \cup {-1} :
          (lastCall'.op = "editMarker" /\ ~crashed'
             /\ (c = "" \/ c = marker(St, GenTime(old)).comment)
             /\ (ty = -1 \/ ty = marker(St, GenTime(old)).type)
             /\ EditMarkerCall(old, old, c, ty)) =>
              /\ lastCall'.ret = TRUE
              /\ UNCHANGED << markerList, markerPositions, next_id, registeredSnaps,
                              snapPoints, undoStack, undoIndex >>
      ]_vars

\* C19 happens: an edit that changes nothing returned, with a consumer listening
EditSameReturned ==
    /\ lastCall = Call("editMarker", TRUE, "same") /\ ~crashed
    /\ LiveRegistered # {}

\* C20: when editMarker returns true with a new time different from the old
\* one, no marker is at the old time, a marker with the requested comment and
\* type is at the new time, the number of markers is unchanged, and one
\* command was pushed whose undo gives the markers of before the call.
EditMovesMarker ==
    [][\A old \in DOMAIN markerPositions, new \in Frames,
         c \in Comments \cup {""}, ty \in Types \cup {-1} :
          (lastCall'.op = "editMarker" /\ lastCall'.ret /\ ~crashed' /\ old # new
             /\ EditMarkerCall(old, new, c, ty)) =>
              LET current == marker(St, GenTime(old))
                  comment == IF c = "" THEN current.comment ELSE c
                  type == IF ty = -1 THEN current.type ELSE ty
              IN /\ MarkersAt(markerList', old) = {}
                 /\ << new, comment, type >> \in View(markerList')
                 /\ Cardinality(DOMAIN markerList') = Cardinality(DOMAIN markerList)
                 /\ undoIndex' = undoIndex + 1
                 /\ View(CallFun(St', undoStack'[undoIndex'].undo).ml) = View(markerList)
      ]_vars

SelfImportIsNoOp ==
    ~crashed =>
        LET o == importFromJson(St, toJson(St), FALSE, TRUE)
        IN o.res /\ o.st.ml = markerList /\ o.st.mp = markerPositions

\* C23: importing a list's toJson() output into an empty list succeeds and
\* gives the same set of markers (frame, comment, type).
JsonRoundTrip ==
    ~crashed =>
        LET empty == [St EXCEPT !.ml = << >>, !.mp = << >>]
            o == importFromJson(empty, toJson(St), FALSE, FALSE)
        IN o.res /\ View(o.st.ml) = View(markerList)
\* the times of a query result do not decrease
TimeSorted(ml, r) == \A k \in 1 .. Len(r) - 1 : ml[r[k]].time <= ml[r[k + 1]].time

\* a query result holds each marker of a set once, and nothing else
HoldsExactly(r, ids) == {r[k] : k \in DOMAIN r} = ids /\ Len(r) = Cardinality(ids)

\* C24: getAllMarkers(type) returns exactly the markers of that type (all of
\* them for -1) and getMarkersInRange(start, end) exactly the markers whose frame
\* is in start .. end (no upper bound for a negative end), both by time.
QueriesReturnMatchesByTime ==
    ~crashed =>
        /\ \A type \in Types \cup {-1} :
               LET r == getAllMarkers(St, type)
               IN /\ TimeSorted(markerList, r)
                  /\ HoldsExactly(r, {i \in DOMAIN markerList :
                                        type = -1 \/ markerList[i].type = type})
        /\ \A start \in Frames, end \in {-1} \cup Frames :
               LET r == getMarkersInRange(St, start, end)
               IN /\ TimeSorted(markerList, r)
                  /\ HoldsExactly(r, {i \in DOMAIN markerList :
                                        /\ start <= frames(markerList[i].time)
                                        /\ end > -1 => frames(markerList[i].time) <= end})
\* the contributions a consumer holds for a frame
Contributions(points, f) == IF f \in DOMAIN points THEN points[f] ELSE 0

\* C25: after an addMarker on a free frame or a removeMarker of a marker, which
\* notify the snap consumers, the list of consumers is the former list without
\* its expired entries, in the same order; an expired consumer is not touched;
\* a live one has received the notification once per entry it has in the list.
SnapNotifyPrunesExpired ==
    [][(~crashed' /\ \/ lastCall'.op = "addMarker" /\ lastCall'.tag # "rename"
                     \/ lastCall'.op = "removeMarker" /\ lastCall'.tag = "removed") =>
          LET added == DOMAIN markerPositions' \ DOMAIN markerPositions
              removed == DOMAIN markerPositions \ DOMAIN markerPositions'
          IN /\ registeredSnaps' = SelectSeq(registeredSnaps, IsAlive)
             /\ \A i \in 1 .. Len(registeredSnaps') : registeredSnaps'[i] \in alive
             /\ \A s \in Consumers \ alive : snapPoints'[s] = snapPoints[s]
             /\ \A s \in alive, f \in Frames :
                    LET n == Occurrences(registeredSnaps, s)
                        had == Contributions(snapPoints[s], f)
                    IN Contributions(snapPoints'[s], f) =
                           IF f \in added THEN had + n
                           ELSE IF f \in removed THEN (IF had > n THEN had - n ELSE 0)
                           ELSE had
      ]_vars

\* C25 happens: an addMarker notified a live consumer and dropped an expired one
ExpiredConsumerPruned ==
    /\ lastCall = Call("addMarker", TRUE, "add, pruning") /\ ~crashed
    /\ registeredSnaps # << >>
\* C26: on the stack shared by the guide lists of a document's timelines the
\* commands stay in the order they were pushed, one per call; undo reverts the
\* last pushed command that is not undone and leaves the markers of every
\* timeline as they were before that command, redo re-applies the command
\* undone last and leaves them as they were after it, whichever list pushed it.
SharedStackIsLifo ==
    [][/\ \A k \in 1 .. Len(docStack') - 1 : docStack'[k].serial < docStack'[k + 1].serial
       /\ docIndex' # docIndex =>
             \/ /\ docCall'.op = "undo"
                /\ docIndex' = docIndex - 1
                /\ docStack' = docStack
                /\ \A k \in 1 .. docIndex : docStack[k].serial <= docStack[docIndex].serial
                /\ GuideViews(guides') = docStack[docIndex].before
             \/ /\ docCall'.op = "redo"
                /\ docIndex' = docIndex + 1
                /\ docStack' = docStack
                /\ \A k \in docIndex + 1 .. Len(docStack) :
                       docStack[docIndex + 1].serial <= docStack[k].serial
                /\ GuideViews(guides') = docStack[docIndex + 1].after
             \/ /\ docCall'.op \in {"addMarker", "removeMarker"}
                /\ docIndex' = docIndex + 1
                /\ Len(docStack') = docIndex'
                /\ SubSeq(docStack', 1, docIndex) = SubSeq(docStack, 1, docIndex)
                /\ docStack'[docIndex'].clipId = docCall'.tag
                /\ Len(docStack'[docIndex'].undo) = 1
                /\ docStack'[docIndex'].before = GuideViews(guides)
                /\ docStack'[docIndex'].after = GuideViews(guides')
       /\ docCall'.op \in {"undo", "redo"} => docIndex' # docIndex
      ]_vars

\* C26 happens: with commands of both timelines on the stack, the later one,
\* pushed by the other list, was undone
OtherListsCommandUndone ==
    /\ docCall.op = "undo"
    /\ Len(docStack) = 2 /\ docIndex = 1
    /\ docStack[1].clipId # docStack[2].clipId
    /\ docStack[2].before # docStack[2].after

ItemIdIsStable ==
    [][/\ \A id \in {-1} \cup (1 .. MaxId) :
             (lastCall'.op = "MoveableItem" /\ NewItemCall(id)) =>
                 LET item == items'[Len(items')]
                 IN /\ getId(item) = IF id = -1 THEN next_id ELSE id
                    /\ id = -1 => next_id' = next_id + 1
                    /\ item.position = -1 /\ item.currentTrackId = -1
                    /\ SubSeq(items', 1, Len(items)) = items
       /\ lastCall'.op \in {"setPosition", "setCurrentTrackId", "setInOut"} =>
             /\ Len(items') = Len(items)
             /\ \A i \in 1 .. Len(items) : getId(items'[i]) = getId(items[i])
      ]_vars

\* C28 happens: an item built with an explicit id (the counter never moved) was
\* placed on a track and trimmed
ExplicitItemTrimmed ==
    /\ lastCall.op = "setInOut"
    /\ next_id = FirstId
    /\ \E i \in 1 .. Len(items) :
           getId(items[i]) = MaxId /\ items[i].currentTrackId = 1 /\ items[i].position = 1
Covered(it) == it.position .. it.position + it.duration - 1

\* C30: after every insert, remove and move request no two items of the track
\* cover a common frame; an insert or a move whose target range overlaps another
\* item returns false and leaves the track as it was; one that overlaps none,
\* also when it starts where the previous item ends, is carried out.
TrackNeverOverlaps ==
    [][/\ \A a, b \in 1 .. Len(trackItems') :
             a # b => Covered(trackItems'[a]) \cap Covered(trackItems'[b]) = {}
       /\ trackCall'.ret = FALSE => trackItems' = trackItems
       /\ \A id \in TrackIds, duration \in Durations, pos \in Positions :
             (trackCall'.op = "insert" /\ TrackInsertCall(id, duration, pos)) =>
                 LET new == [id |-> id, position |-> pos, duration |-> duration]
                     free == \A k \in 1 .. Len(trackItems) :
                                 Covered(trackItems[k]) \cap Covered(new) = {}
                 IN /\ trackCall'.ret = free
                    /\ free => {trackItems'[k] : k \in 1 .. Len(trackItems')}
                                 = {trackItems[k] : k \in 1 .. Len(trackItems)} \cup {new}
       /\ \A id \in TrackIds, pos \in Positions :
             (trackCall'.op = "move" /\ TrackMoveCall(id, pos)) =>
                 \A k \in 1 .. Len(trackItems) : trackItems[k].id = id =>
                     LET new == [trackItems[k] EXCEPT !.position = pos]
                         free == \A j \in 1 .. Len(trackItems) :
                                     j # k => Covered(trackItems[j]) \cap Covered(new) = {}
                     IN /\ trackCall'.ret = free
                        /\ free => {trackItems'[j] : j \in 1 .. Len(trackItems')}
                                     = ({trackItems[j] : j \in 1 .. Len(trackItems)}
                                            \ {trackItems[k]}) \cup {new}
      ]_vars

\* C30 happens: with two items that touch on the track, an insert between them
\* was rejected
OverlappingInsertRejected ==
    /\ trackCall.op = "insert" /\ trackCall.ret = FALSE
    /\ Len(trackItems) = 2
    /\ trackItems[1].position + trackItems[1].duration = trackItems[2].position
\* C32: moveMarker(mid, pos) returns false and changes neither the markers nor
\* the index when some marker is at pos; otherwise it returns true, marker mid
\* is at pos, the index maps pos to mid and has no entry for the old frame, and
\* every other marker and every other index entry is as before.
MoveMarkerMovesOne ==
    [][\A mid \in DOMAIN markerList, pos \in Frames :
          (lastCall'.op = "moveMarker" /\ MoveMarkerCall(mid, pos)) =>
              LET old == frames(markerList[mid].time)
              IN IF \E m \in DOMAIN markerList : frames(markerList[m].time) = pos
                 THEN /\ lastCall'.ret = FALSE
                      /\ UNCHANGED << markerList, markerPositions >>
                 ELSE /\ lastCall'.ret = TRUE
                      /\ markerList' = [markerList EXCEPT ![mid].time = GenTime(pos)]
                      /\ DOMAIN markerPositions' = (DOMAIN markerPositions \ {old}) \cup {pos}
                      /\ markerPositions'[pos] = mid
                      /\ \A f \in DOMAIN markerPositions \ {old, pos} :
                             markerPositions'[f] = markerPositions[f]
      ]_vars
\* C33: each setter of an item changes only its own attribute: setPosition
\* leaves the track id and the in/out range as they were, setCurrentTrackId the
\* position and the in/out range, and setInOut(in, out) sets the in/out range of
\* the producer and leaves the position and the track id as they were.
SettersChangeOwnAttribute ==
    [][lastCall'.op \in {"setPosition", "setCurrentTrackId", "setInOut"} =>
          /\ Len(items') = Len(items)
          /\ \A i \in 1 .. Len(items) :
                /\ lastCall'.op # "setPosition" => items'[i].position = items[i].position
                /\ lastCall'.op # "setCurrentTrackId" =>
                       items'[i].currentTrackId = items[i].currentTrackId
                /\ lastCall'.op # "setInOut" => items'[i].service = items[i].service
                /\ \A in \in Frames, out \in Frames :
                       (lastCall'.op = "setInOut"
                        /\ ItemCall(i, setInOut(items[i], in, out), "setInOut")) =>
                           items'[i].service = [in |-> in, out |-> out]
      ]_vars
\* C31: requestItemMove on an item moves every member of its group by the same
\* track and position delta and leaves every other item where it was, or, when
\* the target slot of some member is off the timeline or overlaps an item that
\* does not move, returns false and leaves every item where it was.
GroupMovesAllOrNone ==
    [][\A id \in TrackIds, tr \in TlTrackIds, pos \in TlPositions :
          (/\ tlCall'.op = "requestItemMove"
           /\ id \in TlItems(tlTracks)
           /\ TlMoveCall(id, tr, pos)) =>
              LET m == Members(tlGroups, id)
                  dTrack == tr - Place(tlTracks, id).track
                  dPos == pos - Place(tlTracks, id).position
                  target(x) == [Place(tlTracks, x) EXCEPT !.track = @ + dTrack,
                                                          !.position = @ + dPos]
                  fits(x) ==
                      /\ target(x).track \in TlTrackIds
                      /\ target(x).position >= 0
                      /\ \A y \in TlItems(tlTracks) \ m :
                             Place(tlTracks, y).track = target(x).track =>
                                 Covered(Place(tlTracks, y)) \cap Covered(target(x)) = {}
              IN /\ tlCall'.ret = \A x \in m : fits(x)
                 /\ TlItems(tlTracks') = TlItems(tlTracks)
                 /\ \A x \in TlItems(tlTracks) :
                       Place(tlTracks', x) = IF tlCall'.ret /\ x \in m THEN target(x)
                                            ELSE Place(tlTracks, x)
      ]_vars

\* C31 happens: the move of a grouped item was refused because of the slot of
\* another member, the item's own slot being free
GroupMoveRefusedForMember ==
    /\ tlCall.op = "requestItemMove" /\ tlCall.ret = FALSE
    /\ tlCall.tag = "member collides"
\* C34: whenever doOpenFile is entered no document is open: at every entry made
\* during a call of newFile, openFile, slotRevert or slotOpenBackup the current
\* project is null.
DoOpenFileFindsNoProject == \A i \in DOMAIN openEntries : ~openEntries[i]

\* C35: saveFile empties the autosave file only when the project was written:
\* a saveFile that returns false leaves the autosave file with its content, and
\* without a project it returns false and changes nothing.
SaveFileEmptiesAfterSuccess ==
    [][\A env \in SaveEnvs :
          (pmCall'.op = "saveFile" /\ SaveFileCall(env)) =>
              /\ ~pmCall'.ret => m_project'.autosave = m_project.autosave
              /\ ~m_project.open =>
                    ~pmCall'.ret /\ UNCHANGED << m_project, m_timelineModels,
                                                 m_mainTimelineModel, m_autoSaveTimer,
                                                 m_lastSave >>
      ]_vars
\* C36: slotAutoSave, called by the timer or at once by slotStartAutoSave,
\* never writes a scene list without a track element: for such a scene the
\* autosave file keeps its content and the last-save clock is not restarted;
\* for any other scene the autosave file holds the scene and the clock is
\* restarted.
AutoSaveNeedsTracks ==
    [][/\ m_project'.autosave # << >> => contains(m_project'.autosave, "<track ")
       /\ \A scene \in Scenes, pattern \in Patterns :
             (\/ pmCall'.op = "slotAutoSave" /\ SlotAutoSaveCall(scene, pattern)
              \/ /\ pmCall'.op = "slotStartAutoSave" /\ m_lastSave = "long"
                 /\ SlotStartAutoSaveCall(scene, pattern)) =>
                 IF contains(replaceAll(scene, pattern), "<track ")
                 THEN /\ m_project'.autosave = replaceAll(scene, pattern)
                      /\ m_lastSave' = "started"
                 ELSE /\ m_project'.autosave = m_project.autosave
                      /\ m_lastSave' = m_lastSave
      ]_vars

\* C36 happens: an autosave of a scene without tracks was skipped, the file
\* keeps the scene saved before and the clock still shows a long time
CorruptedSceneNotSaved ==
    /\ pmCall.op \in {"slotAutoSave", "slotStartAutoSave"} /\ pmCall.tag = "corrupted"
    /\ m_project.autosave # << >>
    /\ m_lastSave = "long"
\* C37: a closeCurrentDocument that returns false leaves the current project,
\* the timeline models and the main timeline reference exactly as they were;
\* the project is deleted, the timeline models are closed and the main timeline
\* is released only by a call that returns true.
FailedCloseChangesNothing ==
    [][\A saveChanges \in BOOLEAN, quit \in BOOLEAN, env \in CloseEnvs :
          (/\ pmCall'.op = "closeCurrentDocument"
           /\ CloseCurrentDocumentCall(saveChanges, quit, env)) =>
              /\ ~pmCall'.ret => UNCHANGED << m_project, m_timelineModels, preparedClose,
                                              m_mainTimelineModel >>
              /\ (\/ m_project.open /\ ~m_project'.open
                  \/ preparedClose' # preparedClose
                  \/ m_mainTimelineModel' # m_mainTimelineModel) => pmCall'.ret
      ]_vars

\* the calls by which a task deletes its clip, marks it invalid or missing, or
\* replaces its producer
ClipChangingCalls == {"requestBinClipDeletion", "setInvalid", "setClipStatus", "setProducer"}

\* C39: a thumbnail-only task leaves its clip in the bin with the validity,
\* the status and the producer it had, and neither makes nor queues a call
\* that deletes, invalidates or replaces it, however it ends; and an abort()
\* that finds the task manager blocked returns without touching the clip,
\* the event queue or the profile flag.
ThumbOnlyTaskKeepsClip ==
    [][/\ (taskPc # "none" /\ task.thumbOnly) =>
              /\ clip'.inBin = clip.inBin
              /\ clip'.valid = clip.valid
              /\ clip'.status = clip.status
              /\ clip'.producer = clip.producer
              /\ \A e \in taskLog' : e.call \notin ClipChangingCalls
              /\ \A i \in 1 .. Len(eventQueue') : eventQueue'[i] \notin ClipChangingCalls
       /\ (taskPc = "abort" /\ isBlocked /\ taskPc' # taskPc) =>
              /\ taskPc' = "finished"
              /\ UNCHANGED << clip, eventQueue, taskLog, shouldCheckProfile >>
      ]_vars

\* C39 happens: a thumbnail-only task was canceled without soft delete, went
\* through the whole of abort() with the task manager never blocked, and its
\* clip is in the bin, valid, with the status it had
ThumbOnlyTaskAborted ==
    /\ taskPc = "finished" /\ task.thumbOnly
    /\ m_isCanceled /\ ~m_softDelete /\ ~isBlocked
    /\ eventQueue = << >>
    /\ clip.inBin /\ clip.valid /\ clip.status # "missing"


\* the full loads of an owner that are pending
PendingFullLoads(owner) ==
    {i \in 1 .. Len(m_taskList) :
        /\ m_taskList[i].owner = owner /\ ~m_taskList[i].thumbOnly
        /\ m_taskList[i].pc # "done" /\ ~m_taskList[i].canceled}

\* C38: start() starts a full load only for an owner without pending load
\* job and always starts a thumbnail-only task, no owner has two pending full
\* loads, and the readyCallBack of a task runs at most once.
StartKeepsOneFullLoad ==
    /\ [](/\ \A owner \in Owners : Cardinality(PendingFullLoads(owner)) <= 1
          /\ \A i \in 1 .. Len(m_taskList) :
                 m_taskList[i].taskDone <= 1 /\ m_taskList[i].ready <= 1
          /\ (startCall.owner # 0 /\ startCall.thumbOnly) => startCall.started)
    /\ [][(Len(m_taskList') > Len(m_taskList) /\ ~startCall'.thumbOnly) =>
              ~hasPendingJob(m_taskList, startCall'.owner)]_vars

\* C38 happens: a full load was refused for an owner whose earlier full load
\* is pending, after the readyCallBack of another task of that owner has run
FullLoadRefusedWhilePending ==
    /\ startCall.owner # 0 /\ ~startCall.thumbOnly /\ ~startCall.started
    /\ PendingFullLoads(startCall.owner) # {}
    /\ \E i \in 1 .. Len(m_taskList) :
           m_taskList[i].owner = startCall.owner /\ m_taskList[i].ready = 1

\* C40: since shouldCheckProfile was last set, at most one profile check
\* (slotCheckProfile or requestTranscoding with checkProfile) was requested.
OneProfileCheckPerArming == profileChecks <= 1

====
